---- MODULE Spec2Model ----
(***************************************************************************)
(* A model of the graphene-jvm interpreter: the operand stack and locals   *)
(* of a call frame (vm/call_frame.rs), the bytecode cursor and decoder     *)
(* (vm/class/instruction.rs, vm/class/parse.rs) and the interpreter loop   *)
(* (vm/mod.rs).                                                            *)
(***************************************************************************)
EXTENDS Integers, Sequences, FiniteSets, TLC

VARIABLES
    stk,        \* Stack.stack of the operand stack under test (Vec<Slot>)
    sop,        \* the last operation applied to stk, with its pre-state
    sprev,      \* the operation applied before sop
    classes,    \* ClassManager.classes of the run
    call_stack, \* execute's call_stack: Vec<CallFrame>, top is the last
    status,     \* "running" | "returned" (execute returned) | "aborted" (panic)
    last,       \* the (pc, inst) pair the top frame's cursor yielded last, and its effect
    bc,         \* a Bytecode cursor iterated on its own: [code, pc]
    yielded,    \* the pcs that cursor yielded so far
    locals,     \* Locals.slots of a locals array under test (Box<[Slot]>)
    lop,        \* the last operation applied to locals, with its pre-state
    cpool,      \* ConstantPool.entries of a pool under test (Vec<Slot>)
    cop,        \* the entries added to cpool so far, and the last get on it
    file,       \* the bytes of a class file handed to ClassManager::load
    parsed,     \* what parse made of file
    look,       \* a switch instruction, a key, and what lookup returned for it
    overflow_checks, \* whether the build checks arithmetic overflow (debug-assertions)
    ar,         \* an arm of execute run on a frame under test, and its outcome
    rd,         \* a Reader under test: Reader.slice and its last operation
    jstr,       \* bytes handed to JavaStr::from_java, the result of validate, the
                \* JavaChars over them taken with next (slice, the code points fwd
                \* and what was encoded from them) and a second JavaChars over
                \* them taken with next_back (rslice, the code points back)
    rstr,       \* a Rust str (its chars), and what from_utf8, java_str! and the
                \* comparison with a JavaStr made of it
    desc        \* a FieldType or MethodDescriptor and the text Display wrote for it

vars == <<stk, sop, sprev, classes, call_stack, status, last, bc, yielded,
          locals, lop, cpool, cop, file, parsed, look, overflow_checks, ar, rd, jstr,
          rstr, desc>>

stackVars == <<stk, sop, sprev>>
vmVars == <<classes, call_stack, status, last>>
iterVars == <<bc, yielded>>
localsVars == <<locals, lop>>
cpoolVars == <<cpool, cop>>
parseVars == <<file, parsed>>
switchVars == <<look>>
arithVars == <<ar>>
readerVars == <<rd>>
stringVars == <<jstr>>
textVars == <<rstr, desc>>
newUnits == <<overflow_checks, arithVars, readerVars, stringVars, textVars>>
unitVars == <<localsVars, cpoolVars, parseVars, switchVars, newUnits>>

(***************************************************************************)
(* Bounds of the model.                                                    *)
(***************************************************************************)
\* Stack::push is offered while the stack under test holds fewer slots.
MaxSlots == 4

(***************************************************************************)
(* vm/value.rs: Value and its category size.                               *)
(***************************************************************************)
Value_Int(n) == [t |-> "Int", v |-> n]
Value_Long(n) == [t |-> "Long", v |-> n]
Value_Float(n) == [t |-> "Float", v |-> n]
Value_Double(n) == [t |-> "Double", v |-> n]
\* A float or double that is a NaN: no number, marked by the field nan.
Value_NaN(t) == [t |-> t, v |-> 0, nan |-> TRUE]
Value_RetAddr(n) == [t |-> "RetAddr", v |-> n]
NoValue == [t |-> "None", v |-> 0]

\* A size that takes every value for one slot.
size_M1(val) == 1
size(val) == IF val.t \in {"Long", "Double"} THEN 2 ELSE 1

(***************************************************************************)
(* vm/call_frame.rs: Slot, Stack.                                          *)
(***************************************************************************)
Entry(val) == [k |-> "Entry", val |-> val]
Marker == [k |-> "Marker", val |-> NoValue]

\* The outcome of a stack operation: ok = FALSE is a panic.
Ok(s, val) == [ok |-> TRUE, stack |-> s, val |-> val]
Panic(s) == [ok |-> FALSE, stack |-> s, val |-> NoValue]

Front(s) == SubSeq(s, 1, Len(s) - 1)

\* Vec::insert(index, element); panics when index > len (an index that
\* underflowed usize is such an index).
insert(s, index, slot) ==
    SubSeq(s, 1, index) \o <<slot>> \o SubSeq(s, index + 1, Len(s))

\* A push that adds no marker.
push_M1(s, val) == Append(s, Entry(val))
push(s, val) ==
    IF val.t \in {"Long", "Double"}
    THEN s \o <<Entry(val), Marker>>
    ELSE Append(s, Entry(val))

\* A pop that leaves the entry under a marker in place.
pop_M1(s) ==
    IF Len(s) = 0 THEN Panic(s)
    ELSE IF s[Len(s)].k = "Entry" THEN Ok(Front(s), s[Len(s)].val)
    ELSE IF Len(s) = 1 THEN Panic(Front(s))
    ELSE IF s[Len(s) - 1].k = "Entry" THEN Ok(Front(s), s[Len(s) - 1].val)
    ELSE Panic(Front(Front(s)))
pop(s) ==
    IF Len(s) = 0 THEN Panic(s)
    ELSE IF s[Len(s)].k = "Entry" THEN Ok(Front(s), s[Len(s)].val)
    ELSE IF Len(s) = 1 THEN Panic(Front(s))
    ELSE IF s[Len(s) - 1].k = "Entry" THEN Ok(Front(Front(s)), s[Len(s) - 1].val)
    ELSE Panic(Front(Front(s)))

inst_pop(s) ==
    IF Len(s) = 0 THEN Panic(s)
    ELSE IF s[Len(s)].k = "Entry" THEN Ok(Front(s), NoValue)
    ELSE Panic(Front(s))

\* A pop2 that pops one value, whatever its category.
inst_pop2_M1(s) == IF pop(s).ok THEN Ok(pop(s).stack, NoValue) ELSE Panic(pop(s).stack)
inst_pop2(s) ==
    IF Len(s) = 0 THEN Panic(s)
    ELSE IF Len(s) = 1 THEN Panic(Front(s))
    ELSE IF s[Len(s) - 1].k = "Entry" THEN Ok(Front(Front(s)), NoValue)
    ELSE Panic(Front(Front(s)))

inst_swap(s) ==
    IF Len(s) < 2 THEN Panic(s)
    ELSE IF s[Len(s) - 1].k = "Entry" /\ s[Len(s)].k = "Entry"
    THEN Ok(SubSeq(s, 1, Len(s) - 2) \o <<s[Len(s)], s[Len(s) - 1]>>, NoValue)
    ELSE Panic(s)

\* A dup_cat1 that inserts the entry twice.
dup_cat1_M1(s, n) ==
    IF Len(s) = 0 THEN Panic(s)
    ELSE IF s[Len(s)].k = "Marker" THEN Panic(s)
    ELSE IF Len(s) - n - 1 < 0 THEN Panic(s)
    ELSE Ok(insert(insert(s, Len(s) - n - 1, s[Len(s)]), Len(s) - n - 1, s[Len(s)]),
            NoValue)
\* A dup_cat1 that inserts one slot too high.
dup_cat1_M2(s, n) ==
    IF Len(s) = 0 THEN Panic(s)
    ELSE IF s[Len(s)].k = "Marker" THEN Panic(s)
    ELSE IF Len(s) - n - 1 < 0 THEN Panic(s)
    ELSE Ok(insert(s, Len(s) - n, s[Len(s)]), NoValue)
dup_cat1(s, n) ==
    IF Len(s) = 0 THEN Panic(s)
    ELSE IF s[Len(s)].k = "Marker" THEN Panic(s)
    ELSE IF Len(s) - n - 1 < 0 THEN Panic(s)
    ELSE Ok(insert(s, Len(s) - n - 1, s[Len(s)]), NoValue)

\* A dup_cat2 whose second insert is not the second slot of the chunk.
dup_cat2_M1(s, n) ==
    IF Len(s) < 2 THEN Panic(s)
    ELSE IF s[Len(s) - 1].k # "Entry" THEN Panic(s)
    ELSE IF Len(s) - n - 2 < 0 THEN Panic(s)
    ELSE Ok(insert(insert(s, Len(s) - n - 2, s[Len(s) - 1]),
                   Len(s) + 1 - n - 2, Entry(Value_Int(0))),
            NoValue)
dup_cat2(s, n) ==
    IF Len(s) < 2 THEN Panic(s)
    ELSE IF s[Len(s) - 1].k # "Entry" THEN Panic(s)
    ELSE IF Len(s) - n - 2 < 0 THEN Panic(s)
    ELSE Ok(insert(insert(s, Len(s) - n - 2, s[Len(s) - 1]),
                   Len(s) + 1 - n - 2, s[Len(s)]),
            NoValue)

inst_dup(s) == dup_cat1(s, 0)
inst_dup_x1(s) == dup_cat1(s, 1)
inst_dup_x2(s) == dup_cat1(s, 2)
inst_dup2(s) == dup_cat2(s, 0)
inst_dup2_x1(s) == dup_cat2(s, 1)
inst_dup2_x2(s) == dup_cat2(s, 2)

(***************************************************************************)
(* The operand stack on its own: any sequence of Stack operations from the *)
(* empty stack.  A panic ends the run.                                     *)
(***************************************************************************)
Values ==
    {Value_Int(1), Value_Long(2), Value_Float(3), Value_Double(4), Value_RetAddr(5)}

DupOps == {"dup", "dup_x1", "dup_x2", "dup2", "dup2_x1", "dup2_x2"}

NoOp == [op |-> "none", ok |-> TRUE, pre |-> <<>>, val |-> NoValue]

IdleStack == stk = <<>> /\ sop = NoOp /\ sprev = NoOp

\* Record the operation: its name, whether it returned, the stack before it
\* and the value it was given or returned.
Applied(name, r, val) ==
    /\ sop.ok
    /\ stk' = r.stack
    /\ sop' = [op |-> name, ok |-> r.ok, pre |-> stk, val |-> val]
    /\ sprev' = IF sop.op = "push" THEN sop ELSE NoOp

DupResult(name, s) ==
    CASE name = "dup" -> inst_dup(s)
      [] name = "dup_x1" -> inst_dup_x1(s)
      [] name = "dup_x2" -> inst_dup_x2(s)
      [] name = "dup2" -> inst_dup2(s)
      [] name = "dup2_x1" -> inst_dup2_x1(s)
      [] name = "dup2_x2" -> inst_dup2_x2(s)

StackPush ==
    /\ Len(stk) < MaxSlots
    /\ \E val \in Values : Applied("push", Ok(push(stk, val), val), val)
    /\ UNCHANGED <<vmVars, iterVars, unitVars>>

StackPop ==
    /\ Applied("pop", pop(stk), pop(stk).val)
    /\ UNCHANGED <<vmVars, iterVars, unitVars>>

StackInstPop ==
    /\ Applied("inst_pop", inst_pop(stk), NoValue)
    /\ UNCHANGED <<vmVars, iterVars, unitVars>>

StackInstPop2 ==
    /\ Applied("inst_pop2", inst_pop2(stk), NoValue)
    /\ UNCHANGED <<vmVars, iterVars, unitVars>>

StackDup ==
    /\ Len(stk) <= MaxSlots
    /\ \E name \in DupOps : Applied(name, DupResult(name, stk), NoValue)
    /\ UNCHANGED <<vmVars, iterVars, unitVars>>

StackSwap ==
    /\ Applied("inst_swap", inst_swap(stk), NoValue)
    /\ UNCHANGED <<vmVars, iterVars, unitVars>>

(***************************************************************************)
(* reader.rs: big-endian reads at a byte offset of a code array.  A code   *)
(* array is a sequence of bytes; offset i is element i + 1.                *)
(*                                                                         *)
(* 32-bit words are written as two's-complement integers throughout: an i32 *)
(* is itself, and a u32 x >= 2^31 (a pc, a return address, a pair count) is *)
(* written x - 2^32, so that a negative pc stands for a pc beyond 2^31 - 1. *)
(***************************************************************************)
Has(code, pos, n) == pos + n <= Len(code)
read_u8(code, i) == code[i + 1]
read_u16(code, i) == code[i + 1] * 256 + code[i + 2]
\* read_u32 (and read_u32()? as i32): the word at offset i
read_u32(code, i) ==
    (((IF code[i + 1] >= 128 THEN code[i + 1] - 256 ELSE code[i + 1]) * 256
        + code[i + 2]) * 256 + code[i + 3]) * 256 + code[i + 4]
as_i8(x) == IF x >= 128 THEN x - 256 ELSE x
as_i16(x) == IF x >= 32768 THEN x - 65536 ELSE x

I32_MAX == 2147483647
I32_MIN == -2147483647 - 1

\* i32::wrapping_add, and u32::wrapping_add_signed on words: x + y modulo 2^32
wrapping_add(x, y) ==
    IF y > 0 /\ x > I32_MAX - y THEN (x + I32_MIN) + (y + I32_MIN)
    ELSE IF y < 0 /\ x < I32_MIN - y THEN (x - I32_MIN) + (y - I32_MIN)
    ELSE x + y
\* i32::wrapping_sub
wrapping_sub(x, y) ==
    IF y < 0 /\ x > I32_MAX + y THEN ((x + I32_MIN) + 1) + ((-1 - y) + I32_MIN)
    ELSE IF y > 0 /\ x < I32_MIN + y THEN (x - I32_MIN) + ((0 - y) - I32_MIN)
    ELSE x - y

\* reader.rs, Reader: the struct is its field slice, the bytes not yet
\* consumed.  A result is [st, bytes, slice]: st is "Ok" or the ReaderError,
\* bytes what was read, slice the field afterwards.  The first is a variant
\* that consumes what is left when it fails.
Reader_read_bytes_M1(slice, n) ==
    IF Len(slice) >= n
    THEN [st |-> "Ok", bytes |-> SubSeq(slice, 1, n),
          slice |-> SubSeq(slice, n + 1, Len(slice))]
    ELSE [st |-> "UnexpectedEndOfFile", bytes |-> <<>>, slice |-> <<>>]
Reader_read_bytes(slice, n) ==
    IF Len(slice) >= n
    THEN [st |-> "Ok", bytes |-> SubSeq(slice, 1, n),
          slice |-> SubSeq(slice, n + 1, Len(slice))]
    ELSE [st |-> "UnexpectedEndOfFile", bytes |-> <<>>, slice |-> slice]
Reader_read_slice(slice, n) ==
    IF Len(slice) >= n
    THEN [st |-> "Ok", bytes |-> SubSeq(slice, 1, n),
          slice |-> SubSeq(slice, n + 1, Len(slice))]
    ELSE [st |-> "UnexpectedEndOfFile", bytes |-> <<>>, slice |-> slice]
\* self.read_slice(n)?; Ok(())
Reader_skip(slice, n) == [Reader_read_slice(slice, n) EXCEPT !.bytes = <<>>]
\* u8, u16 and u32::from_be_bytes of the array read
from_be_bytes(bytes) ==
    CASE Len(bytes) = 1 -> read_u8(bytes, 0)
      [] Len(bytes) = 2 -> read_u16(bytes, 0)
      [] Len(bytes) = 4 -> read_u32(bytes, 0)

\* Whether x + y, x - y and x * y are an i32.
add_fits(x, y) == ~(y > 0 /\ x > I32_MAX - y) /\ ~(y < 0 /\ x < I32_MIN - y)
sub_fits(x, y) == ~(y < 0 /\ x > I32_MAX + y) /\ ~(y > 0 /\ x < I32_MIN + y)
Abs(x) == IF x < 0 THEN 0 - x ELSE x
mul_fits(x, y) ==
    IF x = 0 \/ y = 0 THEN TRUE
    ELSE IF x = I32_MIN THEN y = 1
    ELSE IF y = I32_MIN THEN x = 1
    ELSE IF (x < 0) = (y < 0) THEN Abs(x) <= I32_MAX \div Abs(y)
    ELSE \/ Abs(x) <= I32_MAX \div Abs(y)
         \/ (I32_MAX % Abs(y) = Abs(y) - 1 /\ Abs(x) = I32_MAX \div Abs(y) + 1)

\* i32::wrapping_mul: x * y modulo 2^32, by the bytes of the two words
byte_of(x, i) == (x \div (256 ^ i)) % 256
wrapping_mul(x, y) ==
    LET c0 == byte_of(x, 0) * byte_of(y, 0)
        c1 == byte_of(x, 0) * byte_of(y, 1) + byte_of(x, 1) * byte_of(y, 0) + c0 \div 256
        c2 == byte_of(x, 0) * byte_of(y, 2) + byte_of(x, 1) * byte_of(y, 1)
                + byte_of(x, 2) * byte_of(y, 0) + c1 \div 256
        c3 == byte_of(x, 0) * byte_of(y, 3) + byte_of(x, 1) * byte_of(y, 2)
                + byte_of(x, 2) * byte_of(y, 1) + byte_of(x, 3) * byte_of(y, 0)
                + c2 \div 256
    IN  ((as_i8(c3 % 256) * 256 + (c2 % 256)) * 256 + (c1 % 256)) * 256 + (c0 % 256)

\* i32 / and %: the quotient truncated toward zero and its remainder, for
\* y # 0 and (x, y) # (i32::MIN, -1)
RECURSIVE i32_div(_, _)
i32_div(x, y) ==
    IF y = I32_MIN THEN (IF x = I32_MIN THEN 1 ELSE 0)
    ELSE IF y < 0
    THEN IF x = I32_MIN
         THEN I32_MAX \div (0 - y) + (IF I32_MAX % (0 - y) = (0 - y) - 1 THEN 1 ELSE 0)
         ELSE i32_div(0 - x, 0 - y)
    ELSE IF x >= 0 THEN x \div y
    ELSE (x + y - 1) \div y
i32_rem(x, y) == x - y * i32_div(x, y)

\* i32::wrapping_shl(n as u32), i32::wrapping_shr(n as u32) and
\* (x as u32).wrapping_shr(n as u32) as i32: the count is taken modulo 32
RECURSIVE shl_by(_, _)
shl_by(x, k) == IF k = 0 THEN x ELSE shl_by(wrapping_add(x, x), k - 1)
i32_shl(x, n) == shl_by(x, n % 32)
i32_shr(x, n) ==
    IF n % 32 = 31 THEN (IF x < 0 THEN -1 ELSE 0) ELSE x \div (2 ^ (n % 32))
i32_ushr(x, n) ==
    LET k == n % 32 IN
    IF k = 0 \/ x >= 0 THEN i32_shr(x, n)
    ELSE IF k = 31 THEN 1
    ELSE (x - I32_MIN) \div (2 ^ k) + 2 ^ (31 - k)

\* i64::wrapping_shl(n as u32) and i64::wrapping_shr(n as u32): the count is
\* taken modulo 64.  The longs of the model are words of 32 bits; the left
\* shifts it makes of them stay inside.
i64_shl(x, n) == x * (2 ^ (n % 64))
i64_shr(x, n) ==
    IF n % 64 >= 31 THEN (IF x < 0 THEN -1 ELSE 0) ELSE x \div (2 ^ (n % 64))

(***************************************************************************)
(* vm/class/parse.rs, parse_instruction: the instruction variant, the      *)
(* encoding of the operands and the literal operand of each opcode         *)
(* 0x00..0xC9 (element opcode + 1).                                        *)
(***************************************************************************)
OpName == <<
    "nop", "aconst_null", "iconst", "iconst", "iconst", "iconst", "iconst",
    "iconst", "iconst", "lconst", "lconst", "fconst", "fconst", "fconst",
    "dconst", "dconst", "bipush", "sipush", "ldc", "ldc", "ldc",
    "iload", "lload", "fload", "dload", "aload", "iload", "iload",
    "iload", "iload", "lload", "lload", "lload", "lload", "fload",
    "fload", "fload", "fload", "dload", "dload", "dload", "dload",
    "aload", "aload", "aload", "aload", "iaload", "laload", "faload",
    "daload", "aaload", "baload", "caload", "saload", "istore", "lstore",
    "fstore", "dstore", "astore", "istore", "istore", "istore", "istore",
    "lstore", "lstore", "lstore", "lstore", "fstore", "fstore", "fstore",
    "fstore", "dstore", "dstore", "dstore", "dstore", "astore", "astore",
    "astore", "astore", "iastore", "lastore", "fastore", "dastore", "aastore",
    "bastore", "castore", "sastore", "pop", "pop2", "dup", "dup_x1",
    "dup_x2", "dup2", "dup2_x1", "dup2_x2", "swap", "iadd", "ladd",
    "fadd", "dadd", "isub", "lsub", "fsub", "dsub", "imul",
    "lmul", "fmul", "dmul", "idiv", "ldiv", "fdiv", "ddiv",
    "irem", "lrem", "frem", "drem", "ineg", "lneg", "fneg",
    "dneg", "ishl", "lshl", "ishr", "lshr", "iushr", "lushr",
    "iand", "land", "ior", "lor", "ixor", "lxor", "iinc",
    "i2l", "i2f", "i2d", "l2i", "l2f", "l2d", "f2i",
    "f2l", "f2d", "d2i", "d2l", "d2f", "i2b", "i2c",
    "i2s", "lcmp", "fcmp", "fcmp", "dcmp", "dcmp", "if_eq",
    "if_ne", "if_lt", "if_ge", "if_gt", "if_le", "if_icmp_eq", "if_icmp_ne",
    "if_icmp_lt", "if_icmp_ge", "if_icmp_gt", "if_icmp_le", "if_acmp_eq", "if_acmp_ne", "goto",
    "jsr", "ret", "tableswitch", "lookupswitch", "ireturn", "lreturn", "freturn",
    "dreturn", "areturn", "ret_void", "getstatic", "putstatic", "getfield", "putfield",
    "invokevirtual", "invokespecial", "invokestatic", "invokeinterface", "invokedynamic", "new", "newarray",
    "anewarray", "arraylength", "athrow", "checkcast", "instanceof", "monitorenter", "monitorexit",
    "wide", "multianewarray", "ifnull", "ifnonnull", "goto", "jsr"
>>

OpKind == <<
    "none", "none", "none", "none", "none", "none", "none", "none", "none", "none",
    "none", "none", "none", "none", "none", "none", "i8", "i16", "u8", "u16",
    "u16", "u8", "u8", "u8", "u8", "u8", "none", "none", "none", "none",
    "none", "none", "none", "none", "none", "none", "none", "none", "none", "none",
    "none", "none", "none", "none", "none", "none", "none", "none", "none", "none",
    "none", "none", "none", "none", "u8", "u8", "u8", "u8", "u8", "none",
    "none", "none", "none", "none", "none", "none", "none", "none", "none", "none",
    "none", "none", "none", "none", "none", "none", "none", "none", "none", "none",
    "none", "none", "none", "none", "none", "none", "none", "none", "none", "none",
    "none", "none", "none", "none", "none", "none", "none", "none", "none", "none",
    "none", "none", "none", "none", "none", "none", "none", "none", "none", "none",
    "none", "none", "none", "none", "none", "none", "none", "none", "none", "none",
    "none", "none", "none", "none", "none", "none", "none", "none", "none", "none",
    "none", "none", "u8i8", "none", "none", "none", "none", "none", "none", "none",
    "none", "none", "none", "none", "none", "none", "none", "none", "none", "none",
    "none", "none", "none", "i16", "i16", "i16", "i16", "i16", "i16", "i16",
    "i16", "i16", "i16", "i16", "i16", "i16", "i16", "i16", "i16", "u8",
    "switch", "switch", "none", "none", "none", "none", "none", "none", "u16", "u16",
    "u16", "u16", "u16", "u16", "u16", "iface", "dyn", "u16", "u8", "u16",
    "none", "none", "u16", "u16", "none", "none", "wide", "u16u8", "i16", "i16",
    "i32", "i32"
>>

OpImp == <<
    0, 0, -1, 0, 1, 2, 3, 4, 5, 0, 1, 0, 1, 2, 0, 1, 0, 0, 0, 0,
    0, 0, 0, 0, 0, 0, 0, 1, 2, 3, 0, 1, 2, 3, 0, 1, 2, 3, 0, 1,
    2, 3, 0, 1, 2, 3, 0, 0, 0, 0, 0, 0, 0, 0, 0, 0, 0, 0, 0, 0,
    1, 2, 3, 0, 1, 2, 3, 0, 1, 2, 3, 0, 1, 2, 3, 0, 1, 2, 3, 0,
    0, 0, 0, 0, 0, 0, 0, 0, 0, 0, 0, 0, 0, 0, 0, 0, 0, 0, 0, 0,
    0, 0, 0, 0, 0, 0, 0, 0, 0, 0, 0, 0, 0, 0, 0, 0, 0, 0, 0, 0,
    0, 0, 0, 0, 0, 0, 0, 0, 0, 0, 0, 0, 0, 0, 0, 0, 0, 0, 0, 0,
    0, 0, 0, 0, 0, 0, 0, 0, 0, 0, 1, 0, 1, 0, 0, 0, 0, 0, 0, 0,
    0, 0, 0, 0, 0, 0, 0, 0, 0, 0, 0, 0, 0, 0, 0, 0, 0, 0, 0, 0,
    0, 0, 0, 0, 0, 0, 0, 0, 0, 0, 0, 0, 0, 0, 0, 0, 0, 0, 0, 0,
    0, 0
>>

Inst(op, a, b, next) ==
    [ok |-> TRUE, op |-> op, a |-> a, b |-> b, next |-> next, pad |-> 0,
     dflt |-> 0, low |-> 0, high |-> 0, tbl |-> 0, tlen |-> 0]
\* Err (unwrapped by Bytecode::next) or a panic of the decoder
Bad(pad) ==
    [ok |-> FALSE, op |-> "error", a |-> 0, b |-> 0, next |-> 0, pad |-> pad,
     dflt |-> 0, low |-> 0, high |-> 0, tbl |-> 0, tlen |-> 0]

\* The bytes skipped after the opcode of tableswitch and lookupswitch.
switch_padding(pc) == 4 - ((pc + 1) % 4)

\* The padding of the class-file format: the fields that follow start at a
\* multiple of four.
aligned_padding(pc) == (4 - ((pc + 1) % 4)) % 4

parse_tableswitch(code, pc, pad) ==
    LET p == pc + 1 + pad IN
    IF ~Has(code, pc + 1, pad) \/ ~Has(code, p, 12) THEN Bad(pad)
    ELSE LET default == read_u32(code, p)
             low == read_u32(code, p + 4)
             high == read_u32(code, p + 8)
             offset_count == high - low + 1
         IN  \* high - low + 1 leaves i32 (a panic with overflow checks; read as
             \* usize it exceeds any slice without them, bar a handful of
             \* words), is negative (a usize beyond any slice) or exceeds what
             \* is left of the code: read_slice fails
             IF (low <= 0 /\ high >= I32_MAX + low) \/ (low > 0 /\ high < I32_MIN + low)
             THEN Bad(pad)
             ELSE IF offset_count < 0 \/ offset_count > Len(code) THEN Bad(pad)
             ELSE IF ~Has(code, p + 12, offset_count * 4) THEN Bad(pad)
             ELSE [ok |-> TRUE, op |-> "tableswitch", a |-> 0, b |-> 0,
                   next |-> p + 12 + offset_count * 4, pad |-> pad,
                   dflt |-> default, low |-> low, high |-> high,
                   tbl |-> p + 12, tlen |-> offset_count * 4]

parse_lookupswitch(code, pc, pad) ==
    LET p == pc + 1 + pad IN
    IF ~Has(code, pc + 1, pad) \/ ~Has(code, p, 8) THEN Bad(pad)
    ELSE LET default == read_u32(code, p)
             pair_count == read_u32(code, p + 4)
         IN  \* a count of 2^31 or more, or beyond what is left of the code
             IF pair_count < 0 \/ pair_count > Len(code) THEN Bad(pad)
             ELSE IF ~Has(code, p + 8, pair_count * 8) THEN Bad(pad)
             ELSE [ok |-> TRUE, op |-> "lookupswitch", a |-> 0, b |-> 0,
                   next |-> p + 8 + pair_count * 8, pad |-> pad,
                   dflt |-> default, low |-> 0, high |-> 0,
                   tbl |-> p + 8, tlen |-> pair_count * 8]

WideOps ==
    [o \in {21, 22, 23, 24, 25, 54, 55, 56, 57, 58, 169} |-> OpName[o + 1]]

parse_wide(code, pc) ==
    IF ~Has(code, pc + 1, 3) THEN Bad(0)
    ELSE LET opcode == read_u8(code, pc + 1)
             index == read_u16(code, pc + 2)
         IN  IF opcode \in DOMAIN WideOps THEN Inst(WideOps[opcode], index, 0, pc + 4)
             ELSE IF opcode = 132
             THEN IF Has(code, pc + 4, 2)
                  THEN Inst("iinc", index, as_i16(read_u16(code, pc + 4)), pc + 6)
                  ELSE Bad(0)
             ELSE Bad(0)

\* parse_instruction with the padding of the switches given by pad.
parse_with(code, pc, pad) ==
    LET opc == read_u8(code, pc) IN
    IF opc > 201 THEN Bad(0)
    ELSE LET name == OpName[opc + 1]
             kind == OpKind[opc + 1]
             q == pc + 1
         IN  CASE kind = "none" -> Inst(name, OpImp[opc + 1], 0, q)
               [] kind = "u8" ->
                    IF Has(code, q, 1) THEN Inst(name, read_u8(code, q), 0, q + 1)
                    ELSE Bad(0)
               [] kind = "i8" ->
                    IF Has(code, q, 1) THEN Inst(name, as_i8(read_u8(code, q)), 0, q + 1)
                    ELSE Bad(0)
               [] kind = "u16" ->
                    IF Has(code, q, 2) THEN Inst(name, read_u16(code, q), 0, q + 2)
                    ELSE Bad(0)
               [] kind = "i16" ->
                    IF Has(code, q, 2) THEN Inst(name, as_i16(read_u16(code, q)), 0, q + 2)
                    ELSE Bad(0)
               [] kind = "i32" ->
                    IF Has(code, q, 4) THEN Inst(name, read_u32(code, q), 0, q + 4)
                    ELSE Bad(0)
               [] kind = "u8i8" ->
                    IF Has(code, q, 2)
                    THEN Inst(name, read_u8(code, q), as_i8(read_u8(code, q + 1)), q + 2)
                    ELSE Bad(0)
               [] kind = "u16u8" ->
                    IF Has(code, q, 3)
                    THEN Inst(name, read_u16(code, q), read_u8(code, q + 2), q + 3)
                    ELSE Bad(0)
               [] kind = "iface" ->
                    IF Has(code, q, 4) /\ read_u8(code, q + 3) = 0
                    THEN Inst(name, read_u16(code, q), read_u8(code, q + 2), q + 4)
                    ELSE Bad(0)
               [] kind = "dyn" ->
                    IF Has(code, q, 4) /\ read_u16(code, q + 2) = 0
                    THEN Inst(name, read_u16(code, q), 0, q + 4)
                    ELSE Bad(0)
               [] kind = "switch" ->
                    IF opc = 170 THEN parse_tableswitch(code, pc, pad)
                    ELSE parse_lookupswitch(code, pc, pad)
               [] kind = "wide" -> parse_wide(code, pc)

parse_instruction(code, pc) == parse_with(code, pc, switch_padding(pc))

\* The size of the instruction at pc in the class-file format.
encoded_size(code, pc) == parse_with(code, pc, aligned_padding(pc)).next - pc

(***************************************************************************)
(* vm/class/instruction.rs: Bytecode's Iterator::next on the slice code    *)
(* with the cursor at pc.  some = FALSE is None; inst.ok = FALSE is the    *)
(* panic of unwrap; inst.next is the pc the cursor is left at.             *)
(***************************************************************************)
Bytecode_next(code, pc) ==
    IF 0 <= pc /\ pc < Len(code)
    THEN [some |-> TRUE, inst |-> parse_instruction(code, pc)]
    ELSE [some |-> FALSE, inst |-> Bad(0)]

(***************************************************************************)
(* vm/class/instruction.rs: TableSwitch::lookup, LookupSwitch::lookup over *)
(* the borrowed slice code[tbl .. tbl + tlen).                             *)
(***************************************************************************)
\* A lookup that counts the table from its end.
TableSwitch_lookup_M1(code, inst, key) ==
    IF key < inst.low \/ inst.high < key THEN inst.dflt
    ELSE read_u32(code, inst.tbl + (inst.high - key) * 4)
TableSwitch_lookup(code, inst, key) ==
    IF key < inst.low \/ inst.high < key THEN inst.dflt
    ELSE read_u32(code, inst.tbl + (key - inst.low) * 4)

RECURSIVE lookup_from(_, _, _, _)
lookup_from(code, inst, key, pos) ==
    IF pos >= inst.tbl + inst.tlen THEN inst.dflt
    ELSE IF read_u32(code, pos) = key THEN read_u32(code, pos + 4)
    ELSE lookup_from(code, inst, key, pos + 8)

\* A lookup that returns the offset of the last pair of that key.
RECURSIVE lookup_back(_, _, _, _)
lookup_back(code, inst, key, pos) ==
    IF pos < inst.tbl THEN inst.dflt
    ELSE IF read_u32(code, pos) = key THEN read_u32(code, pos + 4)
    ELSE lookup_back(code, inst, key, pos - 8)
LookupSwitch_lookup_M1(code, inst, key) ==
    lookup_back(code, inst, key, inst.tbl + inst.tlen - 8)
LookupSwitch_lookup(code, inst, key) == lookup_from(code, inst, key, inst.tbl)

(***************************************************************************)
(* vm/call_frame.rs: typed pops, Locals.                                   *)
(***************************************************************************)
pop_as(s, ty) ==
    LET r == pop(s) IN IF r.ok /\ r.val.t = ty THEN r ELSE Panic(r.stack)

Locals_new(n) == [i \in 1..n |-> Marker]

\* A get that reads the slot above.
Locals_get_M1(slots, i) ==
    IF i + 1 < Len(slots) /\ slots[i + 2].k = "Entry"
    THEN [ok |-> TRUE, val |-> slots[i + 2].val]
    ELSE [ok |-> FALSE, val |-> NoValue]
\* Locals::get: [ok, val]; ok = FALSE is its panic
Locals_get(slots, i) ==
    IF i < Len(slots) /\ slots[i + 1].k = "Entry"
    THEN [ok |-> TRUE, val |-> slots[i + 1].val]
    ELSE [ok |-> FALSE, val |-> NoValue]

\* Locals::get_int and the like: [ok, val]
Locals_get_as(slots, i, ty) ==
    IF i < Len(slots) /\ slots[i + 1].k = "Entry" /\ slots[i + 1].val.t = ty
    THEN [ok |-> TRUE, val |-> slots[i + 1].val]
    ELSE [ok |-> FALSE, val |-> NoValue]

\* Locals::set: [ok, slots]; an index outside the slots panics
Locals_set(slots, i, val) ==
    IF val.t \in {"Long", "Double"}
    THEN IF i + 1 < Len(slots)
         THEN [ok |-> TRUE,
               slots |-> [slots EXCEPT ![i + 1] = Entry(val), ![i + 2] = Marker]]
         ELSE [ok |-> FALSE, slots |-> slots]
    ELSE IF i < Len(slots)
         THEN [ok |-> TRUE, slots |-> [slots EXCEPT ![i + 1] = Entry(val)]]
         ELSE [ok |-> FALSE, slots |-> slots]

(***************************************************************************)
(* constant_pool.rs and vm/class/class.rs: the constant pool, classes and  *)
(* methods, and the lookups of the class registry (vm/mod.rs).             *)
(***************************************************************************)
Utf8(s) == [tag |-> "Utf8", a |-> 0, b |-> 0, s |-> s]
Integer(v) == [tag |-> "Integer", a |-> v, b |-> 0, s |-> ""]
LongE(v) == [tag |-> "Long", a |-> v, b |-> 0, s |-> ""]
DoubleE(v) == [tag |-> "Double", a |-> v, b |-> 0, s |-> ""]
ClassE(name) == [tag |-> "Class", a |-> name, b |-> 0, s |-> ""]
MethodRef(class, name_type) == [tag |-> "MethodRef", a |-> class, b |-> name_type, s |-> ""]
NameType(name, descriptor) == [tag |-> "NameType", a |-> name, b |-> descriptor, s |-> ""]
DeadSlot == [tag |-> "Marker", a |-> 0, b |-> 0, s |-> ""]
NoEntry == [tag |-> "None", a |-> 0, b |-> 0, s |-> ""]

\* An add that pushes no marker.
ConstantPool_add_M1(constants, entry) == Append(constants, entry)
\* ConstantPool::add
ConstantPool_add(constants, entry) ==
    IF entry.tag \in {"Long", "Double"}
    THEN constants \o <<entry, DeadSlot>>
    ELSE Append(constants, entry)

\* ConstantPool::get: NoEntry stands for its panic
ConstantPool_get(constants, index) ==
    IF index \in 1..Len(constants) /\ constants[index].tag # "Marker"
    THEN constants[index]
    ELSE NoEntry

\* get(index).into_utf8(): "" with ok = FALSE stands for a panic
utf8_at(constants, index) ==
    LET e == ConstantPool_get(constants, index) IN
    [ok |-> e.tag = "Utf8", s |-> e.s]

Class_name(class) ==
    LET e == ConstantPool_get(class.constants, class.this_class) IN
    IF e.tag = "Class" THEN utf8_at(class.constants, e.a) ELSE [ok |-> FALSE, s |-> ""]

Method_name(method, constants) == utf8_at(constants, method.name)
Method_descriptor(method, constants) == utf8_at(constants, method.descriptor)

FirstOf(S) == IF S = {} THEN 0 ELSE CHOOSE i \in S : \A j \in S : i <= j

\* ClassManager::get: the index of the first class of that name, 0 for None
ClassManager_get(cls, name) ==
    FirstOf({i \in 1..Len(cls) : Class_name(cls[i]).s = name})

\* Class::get_method: the index of the first method of that name; 0 stands
\* for the panic of unwrap.  The descriptor the callers pass is not compared.
get_method(class, name, descriptor) ==
    FirstOf({i \in 1..Len(class.methods) :
                Method_name(class.methods[i], class.constants).s = name})

CallFrame_new(c, m, code) ==
    [cls |-> c, meth |-> m, pc |-> 0,
     locals |-> Locals_new(code.max_locals), stack |-> <<>>]

(***************************************************************************)
(* string/mod.rs: validate, the check of Modified UTF-8 that               *)
(* JavaStr::from_java makes.  index is 0-based.                            *)
(***************************************************************************)
\* Option<u32>: some = FALSE is None
None == [some |-> FALSE, code_point |-> 0]
Some(code_point) == [some |-> TRUE, code_point |-> code_point]

get_surrogate_index(v, index) ==
    IF /\ index + 5 < Len(v)
       /\ v[index + 1] = 237
       /\ v[index + 2] \div 16 = 10
       /\ v[index + 3] \div 64 = 2
       /\ v[index + 4] = 237
       /\ v[index + 5] \div 16 = 11
       /\ v[index + 6] \div 64 = 2
    THEN Some(65536 + ((v[index + 2] % 16) * 65536 + (v[index + 3] % 64) * 1024
                       + (v[index + 5] % 16) * 64 + (v[index + 6] % 64)))
    ELSE None

\* Result<(), EncodingError>: error_len is the number given to
\* NonZeroU8::new, 0 being None.
Valid == [ok |-> TRUE, valid_up_to |-> 0, error_len |-> 0]
err(index, error_len) == [ok |-> FALSE, valid_up_to |-> index, error_len |-> error_len]

\* A check that lets the byte 0 pass as a code point of one byte.
RECURSIVE validate_from_M1(_, _)
validate_from_M1(v, index) ==
    IF index >= Len(v) THEN Valid
    ELSE LET first == v[index + 1] IN
         IF first = 0 THEN validate_from_M1(v, index + 1)
         ELSE IF first < 128 THEN validate_from_M1(v, index + 1)
         ELSE IF first \div 32 = 6
         THEN IF index + 1 >= Len(v) THEN err(index, 1)
              ELSE LET second == v[index + 2]
                       code_point == (first % 32) * 64 + (second % 64)
                   IN  IF second \div 64 # 2 THEN err(index, 2)
                       ELSE IF code_point < 128 /\ code_point # 0 THEN err(index, 2)
                       ELSE validate_from_M1(v, index + 2)
         ELSE IF first \div 16 = 14
         THEN LET pair == get_surrogate_index(v, index) IN
              IF pair.some
              THEN IF pair.code_point < 65536 \/ pair.code_point > 1114111
                   THEN err(index, 6)
                   ELSE validate_from_M1(v, index + 6)
              ELSE IF index + 2 >= Len(v) THEN err(index, 1)
              ELSE LET second == v[index + 2]
                       third == v[index + 3]
                       code_point == (first % 16) * 4096 + (second % 64) * 64 + (third % 64)
                   IN  IF second \div 64 # 2 THEN err(index, 2)
                       ELSE IF third \div 64 # 2 THEN err(index, 3)
                       ELSE IF code_point < 2048 THEN err(index, 3)
                       ELSE validate_from_M1(v, index + 3)
         ELSE err(index, 1)
\* A check that reports a sequence of two bytes where the second is missing.
RECURSIVE validate_from_M2(_, _)
validate_from_M2(v, index) ==
    IF index >= Len(v) THEN Valid
    ELSE LET first == v[index + 1] IN
         IF first = 0 THEN err(index, 1)
         ELSE IF first < 128 THEN validate_from_M2(v, index + 1)
         ELSE IF first \div 32 = 6
         THEN IF index + 1 >= Len(v) THEN err(index, 2)
              ELSE LET second == v[index + 2]
                       code_point == (first % 32) * 64 + (second % 64)
                   IN  IF second \div 64 # 2 THEN err(index, 2)
                       ELSE IF code_point < 128 /\ code_point # 0 THEN err(index, 2)
                       ELSE validate_from_M2(v, index + 2)
         ELSE IF first \div 16 = 14
         THEN LET pair == get_surrogate_index(v, index) IN
              IF pair.some
              THEN IF pair.code_point < 65536 \/ pair.code_point > 1114111
                   THEN err(index, 6)
                   ELSE validate_from_M2(v, index + 6)
              ELSE IF index + 2 >= Len(v) THEN err(index, 1)
              ELSE LET second == v[index + 2]
                       third == v[index + 3]
                       code_point == (first % 16) * 4096 + (second % 64) * 64 + (third % 64)
                   IN  IF second \div 64 # 2 THEN err(index, 2)
                       ELSE IF third \div 64 # 2 THEN err(index, 3)
                       ELSE IF code_point < 2048 THEN err(index, 3)
                       ELSE validate_from_M2(v, index + 3)
         ELSE err(index, 1)
\* The loop of validate from index on.
RECURSIVE validate_from(_, _)
validate_from(v, index) ==
    IF index >= Len(v) THEN Valid
    ELSE LET first == v[index + 1] IN
         IF first = 0 THEN err(index, 1)
         ELSE IF first < 128 THEN validate_from(v, index + 1)
         ELSE IF first \div 32 = 6
         THEN IF index + 1 >= Len(v) THEN err(index, 1)
              ELSE LET second == v[index + 2]
                       code_point == (first % 32) * 64 + (second % 64)
                   IN  IF second \div 64 # 2 THEN err(index, 2)
                       ELSE IF code_point < 128 /\ code_point # 0 THEN err(index, 2)
                       ELSE validate_from(v, index + 2)
         ELSE IF first \div 16 = 14
         THEN LET pair == get_surrogate_index(v, index) IN
              IF pair.some
              THEN IF pair.code_point < 65536 \/ pair.code_point > 1114111
                   THEN err(index, 6)
                   ELSE validate_from(v, index + 6)
              ELSE IF index + 2 >= Len(v) THEN err(index, 1)
              ELSE LET second == v[index + 2]
                       third == v[index + 3]
                       code_point == (first % 16) * 4096 + (second % 64) * 64 + (third % 64)
                   IN  IF second \div 64 # 2 THEN err(index, 2)
                       ELSE IF third \div 64 # 2 THEN err(index, 3)
                       ELSE IF code_point < 2048 THEN err(index, 3)
                       ELSE validate_from(v, index + 3)
         ELSE err(index, 1)
validate(v) == validate_from(v, 0)

\* next_code_point on bytes that are valid Modified UTF-8 and not empty:
\* [rest, code_point].
next_code_point(bytes) ==
    LET first == bytes[1]
        pair == get_surrogate_index(bytes, 0)
    IN  IF first < 128
        THEN [rest |-> SubSeq(bytes, 2, Len(bytes)), code_point |-> first]
        ELSE IF first \div 32 = 6
        THEN [rest |-> SubSeq(bytes, 3, Len(bytes)),
              code_point |-> (first % 32) * 64 + (bytes[2] % 64)]
        ELSE IF pair.some
        THEN [rest |-> SubSeq(bytes, 7, Len(bytes)), code_point |-> pair.code_point]
        ELSE LET second == bytes[2]
                 third == bytes[2]
             IN  [rest |-> SubSeq(bytes, 4, Len(bytes)),
                  code_point |-> (first % 16) * 4096 + (second % 64) * 64 + (third % 64)]

\* next_code_point_reverse on bytes that are valid Modified UTF-8 and not
\* empty: [rest, code_point].  first is the last byte, second the one before.
next_code_point_reverse(bytes) ==
    LET n == Len(bytes)
        first == bytes[n]
    IN  IF first < 128
        THEN [rest |-> SubSeq(bytes, 1, n - 1), code_point |-> first]
        ELSE IF bytes[n - 1] \div 32 = 6
        THEN [rest |-> SubSeq(bytes, 1, n - 2),
              code_point |-> (bytes[n - 1] % 32) * 64 + (first % 64)]
        ELSE IF n > 6 /\ get_surrogate_index(bytes, n - 6).some
        THEN [rest |-> SubSeq(bytes, 1, n - 6),
              code_point |-> get_surrogate_index(bytes, n - 6).code_point]
        ELSE [rest |-> SubSeq(bytes, 1, n - 3),
              code_point |-> (bytes[n - 2] % 16) * 4096 + (bytes[n - 1] % 64) * 64
                                + (first % 64)]

\* len(code): the number of bytes encode_raw writes
len(code) ==
    IF code < 80 /\ code # 0 THEN 1
    ELSE IF code < 2048 THEN 2
    ELSE IF code < 65536 THEN 3
    ELSE 6

\* encode_raw into a buffer of six bytes: the bytes written
encode_raw(code) ==
    CASE len(code) = 1 -> <<code % 256>>
      [] len(code) = 2 -> <<192 + ((code \div 64) % 32), 128 + (code % 64)>>
      [] len(code) = 3 ->
            <<224 + ((code \div 4096) % 16), 128 + ((code \div 64) % 64), 128 + (code % 64)>>
      [] len(code) = 6 ->
            <<237, 160 + (((code - 65536) \div 65536) % 16), 128 + ((code \div 1024) % 64),
              237, 176 + ((code \div 64) % 16), 128 + (code % 64)>>

\* The bytes of a Rust str holding the chars cs (UTF-8), as str::as_bytes
\* hands them to from_utf8, required_len and create_array.
char_bytes(c) ==
    IF c < 128 THEN <<c>>
    ELSE IF c < 2048 THEN <<192 + (c \div 64), 128 + (c % 64)>>
    ELSE IF c < 65536
    THEN <<224 + (c \div 4096), 128 + ((c \div 64) % 64), 128 + (c % 64)>>
    ELSE <<240 + (c \div 262144), 128 + ((c \div 4096) % 64), 128 + ((c \div 64) % 64),
           128 + (c % 64)>>
RECURSIVE str_as_bytes(_)
str_as_bytes(cs) ==
    IF cs = <<>> THEN <<>> ELSE char_bytes(cs[1]) \o str_as_bytes(SubSeq(cs, 2, Len(cs)))

\* from_utf8_unchecked(&v[index..]).chars().next() where v[index] is the lead
\* byte of a sequence of four bytes
first_char(v, index) ==
    (v[index + 1] % 8) * 262144 + (v[index + 2] % 64) * 4096 + (v[index + 3] % 64) * 64
        + (v[index + 4] % 64)

\* The variant of from_utf8 that copies a nul byte as it is
RECURSIVE from_utf8_from_M1(_, _, _, _)
from_utf8_from_M1(v, index, last_index, string) ==
    IF index >= Len(v)
    THEN IF string.some
         THEN [owned |-> TRUE, bytes |-> string.vec \o SubSeq(v, last_index + 1, index)]
         ELSE [owned |-> FALSE, bytes |-> v]
    ELSE IF v[index + 1] \div 8 = 30
    THEN from_utf8_from_M1(v, index + 4, index + 4,
            [some |-> TRUE,
             vec |-> string.vec \o SubSeq(v, last_index + 1, index)
                        \o encode_raw(first_char(v, index))])
    ELSE IF v[index + 1] = 0
    THEN from_utf8_from_M1(v, index + 1, index + 1,
            [some |-> TRUE,
             vec |-> string.vec \o SubSeq(v, last_index + 1, index) \o <<0>>])
    ELSE from_utf8_from_M1(v, index + 1, last_index, string)

\* The loop of from_utf8 from index on, string being the Option<JavaString>
\* (vec is empty while it is None), and what is returned after it: Cow::Owned
\* or Cow::Borrowed and the bytes.
RECURSIVE from_utf8_from(_, _, _, _)
from_utf8_from(v, index, last_index, string) ==
    IF index >= Len(v)
    THEN IF string.some
         THEN [owned |-> TRUE, bytes |-> string.vec \o SubSeq(v, last_index + 1, index)]
         ELSE [owned |-> FALSE, bytes |-> v]
    ELSE IF v[index + 1] \div 8 = 30
    THEN from_utf8_from(v, index + 4, index + 4,
            [some |-> TRUE,
             vec |-> string.vec \o SubSeq(v, last_index + 1, index)
                        \o encode_raw(first_char(v, index))])
    ELSE IF v[index + 1] = 0
    THEN from_utf8_from(v, index + 1, index + 1,
            [some |-> TRUE,
             vec |-> string.vec \o SubSeq(v, last_index + 1, index) \o <<192, 128>>])
    ELSE from_utf8_from(v, index + 1, last_index, string)

from_utf8(v) == from_utf8_from(v, 0, 0, [some |-> FALSE, vec |-> <<>>])

\* required_len(str) (string/macros.rs)
RECURSIVE required_len_from(_, _, _)
required_len_from(v, i, n) ==
    IF i >= Len(v) THEN n
    ELSE IF v[i + 1] \div 8 = 30 THEN required_len_from(v, i + 4, n + 6)
    ELSE IF v[i + 1] = 0 THEN required_len_from(v, i + 1, n + 2)
    ELSE required_len_from(v, i + 1, n + 1)
required_len(v) == required_len_from(v, 0, 0)

\* buf with buf[at + k] = bytes[k + 1] for each k; ok is FALSE when an index is
\* out of bounds (the evaluation of the constant fails)
write_at(b, at, bytes) ==
    IF at + Len(bytes) > Len(b.buf)
    THEN [b EXCEPT !.ok = FALSE]
    ELSE [b EXCEPT !.buf = [x \in 1..Len(b.buf) |->
                              IF x - 1 \in at..(at + Len(bytes) - 1)
                              THEN bytes[x - at] ELSE b.buf[x]]]

\* The loop of create_array::<N>(str) from i and j on
RECURSIVE create_array_from(_, _, _, _)
create_array_from(v, i, j, b) ==
    IF i >= Len(v) \/ ~b.ok THEN b
    ELSE IF v[i + 1] \div 8 = 30
    THEN LET code == 65536 + first_char(v, i) IN
         create_array_from(v, i + 4, j + 6,
            write_at(b, i,
                <<237,
                  160 + (((code - 65536) \div 65536) % 16),
                  128 + ((code \div 1024) % 64),
                  237,
                  176 + ((code \div 64) % 16),
                  128 + (code % 64)>>))
    ELSE IF v[i + 1] = 0
    THEN create_array_from(v, i + 1, j + 2, write_at(b, j, <<192, 128>>))
    ELSE create_array_from(v, i + 1, j + 1, write_at(b, j, <<v[i + 1]>>))

create_array(v, N) == create_array_from(v, 0, 0, [ok |-> TRUE, buf |-> [x \in 1..N |-> 0]])

\* java_str!(str): the array of required_len(str) bytes made by create_array
java_str(v) == create_array(v, required_len(v))

\* char::from_u32
char_from_u32(c) ==
    IF c \in 55296..57343 \/ c > 1114111 THEN None ELSE Some(c)

\* <JavaStr as PartialEq<str>>::eq: self.chars() zipped with other.chars();
\* slice is what is left of self, cs the chars left of other.
RECURSIVE eq_zip(_, _)
eq_zip(slice, cs) ==
    IF slice = <<>> \/ cs = <<>> THEN TRUE
    ELSE LET n == next_code_point(slice)
             java == char_from_u32(n.code_point)
         IN  IF java.some /\ java.code_point = cs[1]
             THEN eq_zip(n.rest, SubSeq(cs, 2, Len(cs)))
             ELSE FALSE
JavaStr_eq_str(java, cs) == eq_zip(java, cs)

\* <JavaStr as Display>::fmt: the chars written, U+FFFD for a code point that
\* is no char
RECURSIVE JavaStr_fmt(_)
JavaStr_fmt(slice) ==
    IF slice = <<>> THEN <<>>
    ELSE LET n == next_code_point(slice)
             c == char_from_u32(n.code_point)
         IN  <<IF c.some THEN c.code_point ELSE 65533>> \o JavaStr_fmt(n.rest)

\* The chars of the descriptor texts, as code points
Ch(c) ==
    CASE c = "(" -> 40 [] c = ")" -> 41 [] c = "V" -> 86 [] c = "L" -> 76 [] c = ";" -> 59
      [] c = "[" -> 91 [] c = "q" -> 34
      [] c = "Byte" -> 66 [] c = "Short" -> 83 [] c = "Int" -> 73 [] c = "Long" -> 74
      [] c = "Float" -> 70 [] c = "Double" -> 68 [] c = "Char" -> 67 [] c = "Bool" -> 90
PrimitiveTypes == {"Byte", "Short", "Int", "Long", "Float", "Double", "Char", "Bool"}

\* <FieldType as Display>::fmt; {kind:?} is Debug for FieldType, the Display
\* text between two '"'
RECURSIVE FieldType_fmt(_)
FieldType_fmt(ft) ==
    IF ft.k \in PrimitiveTypes THEN <<Ch(ft.k)>>
    ELSE IF ft.k = "Class" THEN <<Ch("L")>> \o JavaStr_fmt(ft.name) \o <<Ch(";")>>
    ELSE <<Ch("["), Ch("q")>> \o FieldType_fmt(ft.kind) \o <<Ch("q")>>

RECURSIVE fmt_all(_)
fmt_all(parameters) ==
    IF parameters = <<>> THEN <<>>
    ELSE FieldType_fmt(parameters[1]) \o fmt_all(SubSeq(parameters, 2, Len(parameters)))

\* <MethodDescriptor as Display>::fmt
MethodDescriptor_fmt(md) ==
    <<Ch("(")>> \o fmt_all(md.parameters) \o <<Ch(")")>>
        \o (IF md.ret.k = "None" THEN <<Ch("V")>> ELSE FieldType_fmt(md.ret))


(***************************************************************************)
(* vm/class/parse.rs: parse, the class-file decoder.  A result is          *)
(* [st, err, pos, val]: st is "Ok" (val is the value, pos the offset the   *)
(* reader is at), "Err" (err is the ParseError) or "Panic".                *)
(***************************************************************************)
POk(pos, val) == [st |-> "Ok", err |-> "", pos |-> pos, val |-> val]
PErr(e) == [st |-> "Err", err |-> e, pos |-> 0, val |-> <<>>]
PPanic == [st |-> "Panic", err |-> "", pos |-> 0, val |-> <<>>]

ParseError ==
    {"InvalidCesu8String", "UnexpectedEndOfFile", "InvalidMagicNumber",
     "InvalidConstantTag", "InvalidConstantIdx"}

\* The operator ?: the result r if it is no Ok, and what F makes of it if it
\* is.  r is evaluated once.
Then(r, F(_)) == CHOOSE y \in {IF x.st = "Ok" THEN F(x) ELSE x : x \in {r}} : TRUE

\* The entries of a parsed pool: a and b are the indices or the words stored,
\* s the bytes of a Utf8.
PEntry(tag, a, b) == [tag |-> tag, a |-> a, b |-> b, s |-> <<>>]
PUtf8(bytes) == [tag |-> "Utf8", a |-> 0, b |-> 0, s |-> bytes]

\* reader.read_u16()?, reader.read_u8()? and reader.read_u32()?
read_u16_at(slice, pos) ==
    IF Has(slice, pos, 2) THEN POk(pos + 2, read_u16(slice, pos))
    ELSE PErr("UnexpectedEndOfFile")
read_u8_at(slice, pos) ==
    IF Has(slice, pos, 1) THEN POk(pos + 1, read_u8(slice, pos))
    ELSE PErr("UnexpectedEndOfFile")
read_u32_at(slice, pos) ==
    IF Has(slice, pos, 4) THEN POk(pos + 4, read_u32(slice, pos))
    ELSE PErr("UnexpectedEndOfFile")

\* ConstantIdx::try_from(reader.read_u16()?)?
ConstantIdx_try_from(slice, pos) ==
    Then(read_u16_at(slice, pos), LAMBDA value :
        IF value.val = 0 THEN PErr("InvalidConstantIdx") ELSE value)

\* Two indices, one after the other.
two_indices(slice, pos) ==
    Then(ConstantIdx_try_from(slice, pos), LAMBDA r1 :
    Then(ConstantIdx_try_from(slice, r1.pos), LAMBDA r2 :
        POk(r2.pos, <<r1.val, r2.val>>)))

\* reader.read_slice(n)?: [start, len] of the slice.  A length of 2^31 or
\* more (a negative word here) is more than any input has.
read_slice(slice, pos, n) ==
    IF n < 0 \/ ~Has(slice, pos, n) THEN PErr("UnexpectedEndOfFile")
    ELSE POk(pos + n, [start |-> pos, len |-> n])

\* The bytes of a slice read.
SliceOf(slice, s) == SubSeq(slice, s.start + 1, s.start + s.len)

\* One arm of the match of parse_constant_pool: the entry of that tag
parse_entry(slice, pos, tag) ==
    CASE tag = 1 ->
            Then(read_u16_at(slice, pos), LAMBDA length :
            Then(read_slice(slice, length.pos, length.val), LAMBDA s :
                IF validate(SliceOf(slice, s.val)).ok THEN POk(s.pos, PUtf8(SliceOf(slice, s.val)))
                ELSE PErr("InvalidCesu8String")))
      [] tag \in {3, 4} ->
            Then(read_u32_at(slice, pos), LAMBDA w :
                POk(w.pos, PEntry(IF tag = 3 THEN "Integer" ELSE "Float", w.val, 0)))
      [] tag \in {5, 6} ->
            Then(read_u32_at(slice, pos), LAMBDA high :
            Then(read_u32_at(slice, high.pos), LAMBDA low :
                POk(low.pos, PEntry(IF tag = 5 THEN "Long" ELSE "Double", low.val, high.val))))
      [] tag \in {7, 8, 16} ->
            Then(ConstantIdx_try_from(slice, pos), LAMBDA r :
                POk(r.pos, PEntry(CASE tag = 7 -> "Class" [] tag = 8 -> "String"
                                    [] tag = 16 -> "MethodType", r.val, 0)))
      [] tag \in {9, 10, 11, 12} ->
            Then(two_indices(slice, pos), LAMBDA r :
                POk(r.pos, PEntry(CASE tag = 9 -> "FieldRef" [] tag = 10 -> "MethodRef"
                                    [] tag = 11 -> "InterfaceMethodRef"
                                    [] tag = 12 -> "NameType", r.val[1], r.val[2])))
      [] tag = 15 ->
            Then(read_u8_at(slice, pos), LAMBDA k :
                IF k.val \notin 1..9 THEN PErr("InvalidConstantIdx")
                ELSE Then(ConstantIdx_try_from(slice, k.pos), LAMBDA r :
                        POk(r.pos, PEntry("MethodHandle", k.val, r.val))))
      [] tag = 18 ->
            Then(read_u16_at(slice, pos), LAMBDA m :
            Then(ConstantIdx_try_from(slice, m.pos), LAMBDA r :
                POk(r.pos, PEntry("InvokeDynamic", m.val, r.val))))
      [] OTHER -> PErr("InvalidConstantTag")

\* The while loop of parse_constant_pool, at is the reader's offset and the
\* pool so far; len() is the number of slots.
RECURSIVE pool_entries(_, _, _)
pool_entries(slice, at, entry_count) ==
    IF Len(at.val) >= entry_count THEN at
    ELSE Then(read_u8_at(slice, at.pos), LAMBDA t :
         Then(parse_entry(slice, t.pos, t.val), LAMBDA r :
             pool_entries(slice, POk(r.pos, ConstantPool_add(at.val, r.val)), entry_count)))

\* read_u16()? as usize - 1 underflows on a count of 0: a panic where
\* overflow is checked; where it wraps, ConstantPool::new asks a Vec for
\* usize::MAX slots, a panic as well.
parse_constant_pool(slice, pos) ==
    Then(read_u16_at(slice, pos), LAMBDA n :
        IF n.val = 0 THEN PPanic
        ELSE pool_entries(slice, POk(n.pos, <<>>), n.val - 1))

\* (name, slice) of one attribute
parse_attribute(slice, pos) ==
    Then(ConstantIdx_try_from(slice, pos), LAMBDA name :
    Then(read_u32_at(slice, name.pos), LAMBDA length :
    Then(read_slice(slice, length.pos, length.val), LAMBDA s :
        POk(s.pos, [name |-> name.val, start |-> s.val.start, len |-> s.val.len]))))

\* for _ in 0..attribute_count { parse_attribute(reader)?; }
RECURSIVE skip_attributes(_, _, _)
skip_attributes(slice, at, count) ==
    IF count = 0 THEN at
    ELSE Then(parse_attribute(slice, at.pos), LAMBDA r :
             skip_attributes(slice, r, count - 1))

counted_attributes(slice, pos) ==
    Then(read_u16_at(slice, pos), LAMBDA n : skip_attributes(slice, n, n.val))

parse_field(slice, pos) ==
    Then(read_u16_at(slice, pos), LAMBDA flags :
    Then(two_indices(slice, flags.pos), LAMBDA r :
    Then(counted_attributes(slice, r.pos), LAMBDA a :
        POk(a.pos, [name |-> r.val[1], descriptor |-> r.val[2]]))))

\* for _ in 0..exception_table_len { four read_u16()? }
exception_table(slice, pos) ==
    Then(read_u16_at(slice, pos), LAMBDA n : read_slice(slice, n.pos, 8 * n.val))

\* The body of the Code attribute, read by a Reader of its own over the
\* slice of the attribute.
parse_code(slice) ==
    Then(read_u16_at(slice, 0), LAMBDA max_stack :
    Then(read_u16_at(slice, max_stack.pos), LAMBDA max_locals :
    Then(read_u32_at(slice, max_locals.pos), LAMBDA code_len :
    Then(read_slice(slice, code_len.pos, code_len.val), LAMBDA code_bytes :
    Then(exception_table(slice, code_bytes.pos), LAMBDA e :
    Then(counted_attributes(slice, e.pos), LAMBDA a :
        POk(a.pos, [some |-> TRUE, max_stack |-> max_stack.val,
                    max_locals |-> max_locals.val,
                    bytecode |-> SliceOf(slice, code_bytes.val)])))))))

java_str_Code == <<67, 111, 100, 101>>
NoCode == [some |-> FALSE, max_stack |-> 0, max_locals |-> 0, bytecode |-> <<>>]

\* The attributes of a method: the loop of parse_method, at is the reader's
\* offset and the code so far.  constants.get(name).into_utf8() panics on a
\* name that is no live Utf8 entry.
RECURSIVE method_attributes(_, _, _, _)
method_attributes(slice, at, constants, count) ==
    IF count = 0 THEN at
    ELSE Then(parse_attribute(slice, at.pos), LAMBDA r :
             IF ~utf8_at(constants, r.val.name).ok THEN PPanic
             ELSE IF utf8_at(constants, r.val.name).s = java_str_Code
             THEN Then(parse_code(SliceOf(slice, r.val)), LAMBDA c :
                      method_attributes(slice, POk(r.pos, c.val), constants, count - 1))
             ELSE method_attributes(slice, POk(r.pos, at.val), constants, count - 1))

parse_method(slice, pos, constants) ==
    Then(read_u16_at(slice, pos), LAMBDA flags :
    Then(two_indices(slice, flags.pos), LAMBDA r :
    Then(read_u16_at(slice, r.pos), LAMBDA n :
    Then(method_attributes(slice, POk(n.pos, NoCode), constants, n.val), LAMBDA a :
        POk(a.pos, [name |-> r.val[1], descriptor |-> r.val[2],
                    flags |-> flags.val, code |-> a.val])))))

\* for _ in 0..interface_count { read_u16()? }
parse_interfaces(slice, pos, count) == read_slice(slice, pos, 2 * count)

\* at is the reader's offset and the fields so far
RECURSIVE parse_fields(_, _, _)
parse_fields(slice, at, count) ==
    IF count = 0 THEN at
    ELSE Then(parse_field(slice, at.pos), LAMBDA r :
             parse_fields(slice, POk(r.pos, Append(at.val, r.val)), count - 1))

\* at is the reader's offset and the methods so far
RECURSIVE parse_methods(_, _, _, _)
parse_methods(slice, at, constants, count) ==
    IF count = 0 THEN at
    ELSE Then(parse_method(slice, at.pos, constants), LAMBDA r :
             parse_methods(slice, POk(r.pos, Append(at.val, r.val)), constants, count - 1))

\* 0xCAFE_BABE as a word
MAGIC == -889275714

\* parse from the access flags on, constants the pool parsed
parse_members(slice, constants) ==
    Then(read_u16_at(slice, constants.pos), LAMBDA flags :
    Then(ConstantIdx_try_from(slice, flags.pos), LAMBDA this_class :
    Then(read_u16_at(slice, this_class.pos), LAMBDA super_class :
    Then(read_u16_at(slice, super_class.pos), LAMBDA ic :
    Then(parse_interfaces(slice, ic.pos, ic.val), LAMBDA is :
    Then(read_u16_at(slice, is.pos), LAMBDA fc :
    Then(parse_fields(slice, POk(fc.pos, <<>>), fc.val), LAMBDA fs :
    Then(read_u16_at(slice, fs.pos), LAMBDA mc :
    Then(parse_methods(slice, POk(mc.pos, <<>>), constants.val, mc.val), LAMBDA ms :
    Then(counted_attributes(slice, ms.pos), LAMBDA as :
        POk(as.pos, [constants |-> constants.val, this_class |-> this_class.val,
                     super_class |-> super_class.val, fields |-> fs.val,
                     methods |-> ms.val])))))))))))

parse(slice) ==
    Then(read_u32_at(slice, 0), LAMBDA magic :
        IF magic.val # MAGIC THEN PErr("InvalidMagicNumber")
        ELSE Then(read_u16_at(slice, magic.pos), LAMBDA minor :
             Then(read_u16_at(slice, minor.pos), LAMBDA major :
             Then(parse_constant_pool(slice, major.pos), LAMBDA constants :
                 parse_members(slice, constants)))))

(***************************************************************************)
(* vm/mod.rs, execute: the effect of one instruction.  f is the top frame  *)
(* with its cursor already past the instruction (Bytecode::next), pc the   *)
(* pc the cursor yielded with it.                                          *)
(***************************************************************************)
\* The outcome for the top frame: ok = FALSE is a panic; taken and d tell
\* whether set_pc was called and with which offset.
FOk(f) == [ok |-> TRUE, f |-> f, taken |-> FALSE, d |-> 0]
FPanic(f) == [ok |-> FALSE, f |-> f, taken |-> FALSE, d |-> 0]

\* a stack operation of the frame
OnStack(f, r) == IF r.ok THEN FOk([f EXCEPT !.stack = r.stack]) ELSE FPanic(f)

\* frame.bytecode.set_pc(pc.wrapping_add_signed(offset)); the first is a
\* variant relative to the pc after the instruction.
branch_M1(f, pc, offset) ==
    [ok |-> TRUE, f |-> [f EXCEPT !.pc = wrapping_add(f.pc, offset)],
     taken |-> TRUE, d |-> offset]
branch(f, pc, offset) ==
    [ok |-> TRUE, f |-> [f EXCEPT !.pc = wrapping_add(pc, offset)],
     taken |-> TRUE, d |-> offset]

push_const(f, val) == FOk([f EXCEPT !.stack = push(f.stack, val)])

exec_ldc(f, constants, idx) ==
    LET e == ConstantPool_get(constants, idx) IN
    CASE e.tag = "Integer" -> push_const(f, Value_Int(e.a))
      [] e.tag = "Long" -> push_const(f, Value_Long(e.a))
      [] e.tag = "Float" -> push_const(f, Value_Float(e.a))
      [] e.tag = "Double" -> push_const(f, Value_Double(e.a))
      [] OTHER -> FPanic(f)

exec_load(f, idx, ty) ==
    LET g == Locals_get_as(f.locals, idx, ty) IN
    IF g.ok THEN push_const(f, g.val) ELSE FPanic(f)

exec_store(f, idx, ty) ==
    LET r == pop_as(f.stack, ty) IN
    IF ~r.ok THEN FPanic(f)
    ELSE LET w == Locals_set(f.locals, idx, r.val) IN
         IF w.ok THEN FOk([f EXCEPT !.stack = r.stack, !.locals = w.slots])
         ELSE FPanic(f)

\* What the closure of a bin_op returns: ok = FALSE is its panic.
Ret(v) == [ok |-> TRUE, v |-> v]
NoRet == [ok |-> FALSE, v |-> 0]

\* The closures bin_op_int is called with.  Add::add, Sub::sub and Mul::mul
\* on i32 panic on overflow in a build with overflow checks and wrap in one
\* without; Div::div and Rem::rem panic on a zero divisor and on
\* i32::MIN / -1 in every build.
int_op(name, lhs, rhs) ==
    CASE name = "iadd" ->
            IF overflow_checks /\ ~add_fits(lhs, rhs) THEN NoRet
            ELSE Ret(wrapping_add(lhs, rhs))
      [] name = "isub" ->
            IF overflow_checks /\ ~sub_fits(lhs, rhs) THEN NoRet
            ELSE Ret(wrapping_sub(lhs, rhs))
      [] name = "imul" ->
            IF overflow_checks /\ ~mul_fits(lhs, rhs) THEN NoRet
            ELSE Ret(wrapping_mul(lhs, rhs))
      [] name = "idiv" ->
            IF rhs = 0 \/ (lhs = I32_MIN /\ rhs = -1) THEN NoRet
            ELSE Ret(i32_div(lhs, rhs))
      [] name = "irem" ->
            IF rhs = 0 \/ (lhs = I32_MIN /\ rhs = -1) THEN NoRet
            ELSE Ret(i32_rem(lhs, rhs))
      [] name = "ishl" -> Ret(i32_shl(lhs, rhs))
      [] name = "ishr" -> Ret(i32_shr(lhs, rhs))
      [] name \in {"iushr", "lushr"} -> Ret(i32_ushr(lhs, rhs))

\* The closures bin_op_long is called with.
long_op(name, lhs, rhs) ==
    CASE name = "lshl" -> Ret(i64_shl(lhs, rhs))
      [] name = "lshr" -> Ret(i64_shr(lhs, rhs))

bin_op_int(f, name) ==
    LET r == pop_as(f.stack, "Int") IN
    IF ~r.ok THEN FPanic(f)
    ELSE LET l == pop_as(r.stack, "Int") IN
         IF ~l.ok THEN FPanic(f)
         ELSE LET x == int_op(name, l.val.v, r.val.v) IN
              IF ~x.ok THEN FPanic(f)
              ELSE FOk([f EXCEPT !.stack = push(l.stack, Value_Int(x.v))])

bin_op_long(f, name) ==
    LET r == pop_as(f.stack, "Long") IN
    IF ~r.ok THEN FPanic(f)
    ELSE LET l == pop_as(r.stack, "Long") IN
         IF ~l.ok THEN FPanic(f)
         ELSE LET x == long_op(name, l.val.v, r.val.v) IN
              IF ~x.ok THEN FPanic(f)
              ELSE FOk([f EXCEPT !.stack = push(l.stack, Value_Long(x.v))])

\* Ord::cmp and PartialOrd::partial_cmp as the int of the match: 2 is None,
\* what partial_cmp makes of a NaN.
IsNaN(val) == "nan" \in DOMAIN val
cmp(val1, val2) ==
    IF val1.v > val2.v THEN 1 ELSE IF val1.v = val2.v THEN 0 ELSE -1
partial_cmp(val1, val2) == IF IsNaN(val1) \/ IsNaN(val2) THEN 2 ELSE cmp(val1, val2)

\* A comparison that answers a NaN the other way round.
exec_cmp_M1(f, ty, if_nan) ==
    LET val1 == pop_as(f.stack, ty) IN
    IF ~val1.ok THEN FPanic(f)
    ELSE LET val2 == pop_as(val1.stack, ty) IN
         IF ~val2.ok THEN FPanic(f)
         ELSE LET o == partial_cmp(val1.val, val2.val)
                  result == IF o = 2 THEN (IF if_nan THEN -1 ELSE 1) ELSE o
              IN  FOk([f EXCEPT !.stack = push(val2.stack, Value_Int(result))])
\* lcmp, fcmp(greater_if_nan), dcmp(less_if_nan): val1 is the value popped
\* first.
exec_cmp(f, ty, if_nan) ==
    LET val1 == pop_as(f.stack, ty) IN
    IF ~val1.ok THEN FPanic(f)
    ELSE LET val2 == pop_as(val1.stack, ty) IN
         IF ~val2.ok THEN FPanic(f)
         ELSE LET o == partial_cmp(val1.val, val2.val)
                  result == IF o = 2 THEN (IF if_nan THEN 1 ELSE -1) ELSE o
              IN  FOk([f EXCEPT !.stack = push(val2.stack, Value_Int(result))])

exec_iinc(f, idx, constant) ==
    LET g == Locals_get_as(f.locals, idx, "Int") IN
    IF ~g.ok THEN FPanic(f)
    ELSE FOk([f EXCEPT !.locals =
                 Locals_set(f.locals, idx, Value_Int(wrapping_add(g.val.v, constant))).slots])

if_holds(name, val) ==
    CASE name = "if_eq" -> val = 0
      [] name = "if_ne" -> val # 0
      [] name = "if_lt" -> val < 0
      [] name = "if_le" -> val <= 0
      [] name = "if_gt" -> val > 0
      [] name = "if_ge" -> val >= 0

\* A comparison with the operands the other way round.
if_icmp_holds_M1(name, val1, val2) ==
    CASE name = "if_icmp_eq" -> val2 = val1
      [] name = "if_icmp_ne" -> val2 # val1
      [] name = "if_icmp_lt" -> val2 < val1
      [] name = "if_icmp_le" -> val2 <= val1
      [] name = "if_icmp_gt" -> val2 > val1
      [] name = "if_icmp_ge" -> val2 >= val1
if_icmp_holds(name, val1, val2) ==
    CASE name = "if_icmp_eq" -> val1 = val2
      [] name = "if_icmp_ne" -> val1 # val2
      [] name = "if_icmp_lt" -> val1 < val2
      [] name = "if_icmp_le" -> val1 <= val2
      [] name = "if_icmp_gt" -> val1 > val2
      [] name = "if_icmp_ge" -> val1 >= val2

IfOps == {"if_eq", "if_ne", "if_lt", "if_le", "if_gt", "if_ge"}
IfIcmpOps ==
    {"if_icmp_eq", "if_icmp_ne", "if_icmp_lt", "if_icmp_le", "if_icmp_gt", "if_icmp_ge"}

exec_if(f, pc, inst) ==
    LET r == pop_as(f.stack, "Int")
        g == [f EXCEPT !.stack = r.stack]
    IN  IF ~r.ok THEN FPanic(f)
        ELSE IF if_holds(inst.op, r.val.v) THEN branch(g, pc, inst.a)
        ELSE FOk(g)

exec_if_icmp(f, pc, inst) ==
    LET val2 == pop_as(f.stack, "Int") IN
    IF ~val2.ok THEN FPanic(f)
    ELSE LET val1 == pop_as(val2.stack, "Int")
             g == [f EXCEPT !.stack = val1.stack]
         IN  IF ~val1.ok THEN FPanic(f)
             ELSE IF if_icmp_holds(inst.op, val1.val.v, val2.val.v)
             THEN branch(g, pc, inst.a)
             ELSE FOk(g)

\* A jsr that pushes its own pc.
exec_jsr_M1(f, pc, inst) ==
    branch([f EXCEPT !.stack = push(f.stack, Value_RetAddr(pc))], pc, inst.a)
\* push_ret_addr(frame.bytecode.pc()), then the branch
exec_jsr(f, pc, inst) ==
    branch([f EXCEPT !.stack = push(f.stack, Value_RetAddr(f.pc))], pc, inst.a)

exec_ret(f, idx) ==
    LET g == Locals_get_as(f.locals, idx, "RetAddr") IN
    IF ~g.ok THEN FPanic(f)
    ELSE [ok |-> TRUE, f |-> [f EXCEPT !.pc = g.val.v], taken |-> FALSE, d |-> 0]

exec_switch(f, pc, inst, code) ==
    LET r == pop_as(f.stack, "Int")
        g == [f EXCEPT !.stack = r.stack]
    IN  IF ~r.ok THEN FPanic(f)
        ELSE IF inst.op = "tableswitch"
        THEN branch(g, pc, TableSwitch_lookup(code, inst, r.val.v))
        ELSE branch(g, pc, LookupSwitch_lookup(code, inst, r.val.v))

ConstOps == {"iconst", "lconst", "fconst", "dconst", "bipush", "sipush"}
LoadOps == {"iload", "lload", "fload", "dload"}
StoreOps == {"istore", "lstore", "fstore", "dstore"}
StackOps ==
    {"pop", "pop2", "dup", "dup_x1", "dup_x2", "dup2", "dup2_x1", "dup2_x2", "swap"}
IntMathOps ==
    {"iadd", "isub", "imul", "idiv", "irem", "ishl", "ishr", "iushr", "lushr"}
LongMathOps == {"lshl", "lshr"}
CmpOps == {"lcmp", "fcmp", "dcmp"}
SwitchOps == {"tableswitch", "lookupswitch"}
JumpOps == IfOps \cup IfIcmpOps \cup {"goto", "jsr", "ret"}
ReturnOps == {"ireturn", "lreturn", "freturn", "dreturn", "ret_void"}

\* The instructions that change the top frame alone and never call set_pc.
SimpleOps ==
    {"nop", "ldc", "iinc"} \cup ConstOps \cup LoadOps \cup StoreOps \cup StackOps
        \cup IntMathOps \cup LongMathOps \cup CmpOps

\* The variants execute has no arm for: todo!("... not implemented")
UnsupportedOps ==
    {"aconst_null", "aload", "iaload", "laload", "faload", "daload", "aaload",
     "baload", "caload", "saload", "astore", "iastore", "lastore", "fastore",
     "dastore", "aastore", "bastore", "castore", "sastore", "if_acmp_eq",
     "if_acmp_ne", "areturn", "getstatic", "putstatic", "getfield", "putfield",
     "invokevirtual", "invokespecial", "invokeinterface", "invokedynamic", "new",
     "newarray", "anewarray", "arraylength", "athrow", "checkcast", "instanceof",
     "monitorenter", "monitorexit", "multianewarray", "ifnull", "ifnonnull"}

TypeOf(op) ==
    CASE op \in {"iconst", "bipush", "sipush", "iload", "istore", "ireturn"} -> "Int"
      [] op \in {"lconst", "lload", "lstore", "lreturn"} -> "Long"
      [] op \in {"fconst", "fload", "fstore", "freturn"} -> "Float"
      [] op \in {"dconst", "dload", "dstore", "dreturn"} -> "Double"

exec_stack_op(f, op) ==
    CASE op = "pop" -> OnStack(f, inst_pop(f.stack))
      [] op = "pop2" -> OnStack(f, inst_pop2(f.stack))
      [] op = "swap" -> OnStack(f, inst_swap(f.stack))
      [] op \in DupOps -> OnStack(f, DupResult(op, f.stack))

exec_simple(f, inst, constants) ==
    CASE inst.op = "nop" -> FOk(f)
      [] inst.op \in ConstOps ->
            push_const(f, [t |-> TypeOf(inst.op), v |-> inst.a])
      [] inst.op = "ldc" -> exec_ldc(f, constants, inst.a)
      [] inst.op \in LoadOps -> exec_load(f, inst.a, TypeOf(inst.op))
      [] inst.op \in StoreOps -> exec_store(f, inst.a, TypeOf(inst.op))
      [] inst.op \in StackOps -> exec_stack_op(f, inst.op)
      [] inst.op \in IntMathOps -> bin_op_int(f, inst.op)
      [] inst.op \in LongMathOps -> bin_op_long(f, inst.op)
      [] inst.op = "lcmp" -> exec_cmp(f, "Long", FALSE)
      [] inst.op = "fcmp" -> exec_cmp(f, "Float", inst.a = 1)
      [] inst.op = "dcmp" -> exec_cmp(f, "Double", inst.a = 1)
      [] inst.op = "iinc" -> exec_iinc(f, inst.a, inst.b)

exec_jump(f, pc, inst) ==
    CASE inst.op \in IfOps -> exec_if(f, pc, inst)
      [] inst.op \in IfIcmpOps -> exec_if_icmp(f, pc, inst)
      [] inst.op = "goto" -> branch(f, pc, inst.a)
      [] inst.op = "jsr" -> exec_jsr(f, pc, inst)
      [] inst.op = "ret" -> exec_ret(f, inst.a)

\* ireturn, lreturn, freturn, dreturn, ret_void on the call stack cs whose
\* top frame executes the return: [ok, cs]; the first is a variant that
\* also stores the value in local 0 of the invoker, the second one that
\* drops the value.
exec_return_M2(cs, op) ==
    LET n == Len(cs)
        r == pop_as(cs[n].stack, TypeOf(op))
    IN  IF op = "ret_void" THEN [ok |-> TRUE, cs |-> Front(cs)]
        ELSE IF ~r.ok \/ n = 1 THEN [ok |-> FALSE, cs |-> cs]
        ELSE [ok |-> TRUE,
              cs |-> [Front(cs) EXCEPT
                        ![n - 1].stack = push(@, r.val),
                        ![n - 1].locals = IF @ = <<>> THEN @
                                          ELSE [@ EXCEPT ![1] = [k |-> "Entry", val |-> r.val]]]]
exec_return_M1(cs, op) ==
    LET n == Len(cs)
        r == pop_as(cs[n].stack, TypeOf(op))
    IN  IF op = "ret_void" THEN [ok |-> TRUE, cs |-> Front(cs)]
        ELSE IF ~r.ok \/ n = 1 THEN [ok |-> FALSE, cs |-> cs]
        ELSE [ok |-> TRUE, cs |-> Front(cs)]
exec_return(cs, op) ==
    LET n == Len(cs)
        r == pop_as(cs[n].stack, TypeOf(op))
    IN  IF op = "ret_void" THEN [ok |-> TRUE, cs |-> Front(cs)]
        ELSE IF ~r.ok \/ n = 1 THEN [ok |-> FALSE, cs |-> cs]
        ELSE [ok |-> TRUE,
              cs |-> [Front(cs) EXCEPT ![n - 1].stack = push(@, r.val)]]

\* The loop that loads the arguments: k pops of the caller's stack, each
\* stored at local i of the invoked frame, i advancing by the value's size.
RECURSIVE load_args(_, _, _, _)
load_args(stack, slots, k, i) ==
    IF k = 0 THEN [ok |-> TRUE, stack |-> stack, slots |-> slots]
    ELSE LET r == pop(stack) IN
         IF ~r.ok THEN [ok |-> FALSE, stack |-> stack, slots |-> slots]
         ELSE LET w == Locals_set(slots, i, r.val) IN
              IF ~w.ok THEN [ok |-> FALSE, stack |-> stack, slots |-> slots]
              ELSE load_args(r.stack, w.slots, k - 1, i + size(r.val))

\* The method an invokestatic of constant idx names: [ok, class_name, name, descriptor]
method_ref(constants, idx) ==
    LET ref == ConstantPool_get(constants, idx)
        class == ConstantPool_get(constants, ref.a)
        class_name == utf8_at(constants, class.a)
        name_type == ConstantPool_get(constants, ref.b)
        method_name == utf8_at(constants, name_type.a)
        method_descriptor == utf8_at(constants, name_type.b)
    IN  IF ref.tag = "MethodRef" /\ class.tag = "Class" /\ class_name.ok
           /\ name_type.tag = "NameType" /\ method_name.ok /\ method_descriptor.ok
        THEN [ok |-> TRUE, class_name |-> class_name.s, name |-> method_name.s,
              descriptor |-> method_descriptor.s]
        ELSE [ok |-> FALSE, class_name |-> "", name |-> "", descriptor |-> ""]

\* invokestatic(idx) on the call stack cs of the registry cls: [ok, cs]
exec_invokestatic(cs, idx, cls) ==
    LET n == Len(cs)
        frame == cs[n]
        ref == method_ref(cls[frame.cls].constants, idx)
        c == ClassManager_get(cls, ref.class_name)
        m == IF c = 0 THEN 0 ELSE get_method(cls[c], ref.name, ref.descriptor)
        failed == [ok |-> FALSE, cs |-> cs]
    IN  IF ~ref.ok \/ c = 0 \/ m = 0 THEN failed
        ELSE LET method == cls[c].methods[m]
                 invoked_frame == CallFrame_new(c, m, method.code)
                 args == load_args(frame.stack, invoked_frame.locals,
                                   Len(method.params), 0)
             IN  IF ~args.ok THEN failed
                 ELSE [ok |-> TRUE,
                       cs |-> Append([cs EXCEPT ![n].stack = args.stack],
                                     [invoked_frame EXCEPT !.locals = args.slots])]

\* while let Some(frame) = call_stack.last_mut(): execute returns once the
\* call stack is empty; the first is a variant that ends with the frame of
\* main still on the call stack.
loop_status_M1(cs) == IF Len(cs) <= 1 THEN "returned" ELSE "running"
loop_status(cs) == IF cs = <<>> THEN "returned" ELSE "running"

(***************************************************************************)
(* The class files of the runs: each run loads the classes of one entry    *)
(* into the registry and executes the class named main.  A method carries  *)
(* the constant pool indices of its name and descriptor, the parameters of *)
(* its parsed descriptor (MethodDescriptor::args) and its Code attribute.  *)
(***************************************************************************)
Scenarios == <<
    \* 1: static calls across two classes: int, long, double and float results
    [main |-> "Main", classes |-> <<
     [constants |-> <<Utf8("Main"), ClassE(1), Utf8("sub"), Utf8("(II)I"),
          NameType(3, 4), MethodRef(2, 5), Utf8("mix"), Utf8("(JIJ)J"),
          NameType(7, 8), MethodRef(2, 9), Utf8("Util"), ClassE(11),
          Utf8("d"), Utf8("()D"), NameType(13, 14), MethodRef(12, 15),
          Utf8("fl"), Utf8("()F"), NameType(17, 18), MethodRef(12, 19),
          Utf8("nothing"), Utf8("()V"), NameType(21, 22), MethodRef(12, 23),
          Utf8("main"), Utf8("([Ljava/lang/String;)V")>>,
      this_class |-> 2,
      methods |-> <<
         [name |-> 25, descriptor |-> 26, params |-> <<"[Ljava/lang/String;">>,
          code |-> [max_stack |-> 5, max_locals |-> 1,
                    bytecode |-> <<6, 7, 184, 0, 6, 87, 10, 5, 9, 184, 0, 10, 88, 8, 184, 0, 16, 88, 184, 0, 20, 87, 184, 0, 24, 87, 177>>]],
         [name |-> 3, descriptor |-> 4, params |-> <<"I", "I">>,
          code |-> [max_stack |-> 2, max_locals |-> 2,
                    bytecode |-> <<26, 27, 100, 172>>]],
         [name |-> 7, descriptor |-> 8, params |-> <<"J", "I", "J">>,
          code |-> [max_stack |-> 2, max_locals |-> 5,
                    bytecode |-> <<30, 173>>]]>>],
     [constants |-> <<Utf8("Util"), ClassE(1), Utf8("d"), Utf8("()D"),
          Utf8("fl"), Utf8("()F"), Utf8("nothing"), Utf8("()V")>>,
      this_class |-> 2,
      methods |-> <<
         [name |-> 3, descriptor |-> 4, params |-> <<>>,
          code |-> [max_stack |-> 2, max_locals |-> 0,
                    bytecode |-> <<15, 175>>]],
         [name |-> 5, descriptor |-> 6, params |-> <<>>,
          code |-> [max_stack |-> 1, max_locals |-> 0,
                    bytecode |-> <<13, 174>>]],
         [name |-> 7, descriptor |-> 8, params |-> <<>>,
          code |-> [max_stack |-> 0, max_locals |-> 0,
                    bytecode |-> <<177>>]]>>]>>],
    \* 2: foo(I)I declared before foo()I; main invokes foo()I
    [main |-> "Main", classes |-> <<
     [constants |-> <<Utf8("Main"), ClassE(1), Utf8("foo"), Utf8("(I)I"),
          Utf8("()I"), NameType(3, 5), MethodRef(2, 6), Utf8("main"),
          Utf8("([Ljava/lang/String;)V")>>,
      this_class |-> 2,
      methods |-> <<
         [name |-> 3, descriptor |-> 4, params |-> <<"I">>,
          code |-> [max_stack |-> 1, max_locals |-> 1,
                    bytecode |-> <<26, 172>>]],
         [name |-> 3, descriptor |-> 5, params |-> <<>>,
          code |-> [max_stack |-> 1, max_locals |-> 0,
                    bytecode |-> <<8, 172>>]],
         [name |-> 8, descriptor |-> 9, params |-> <<"[Ljava/lang/String;">>,
          code |-> [max_stack |-> 2, max_locals |-> 1,
                    bytecode |-> <<4, 184, 0, 7, 87, 177>>]]>>]>>],
    \* 3: foo()I declared before foo(I)I; main invokes foo(I)I
    [main |-> "Main", classes |-> <<
     [constants |-> <<Utf8("Main"), ClassE(1), Utf8("foo"), Utf8("()I"),
          Utf8("(I)I"), NameType(3, 5), MethodRef(2, 6), Utf8("main"),
          Utf8("([Ljava/lang/String;)V")>>,
      this_class |-> 2,
      methods |-> <<
         [name |-> 3, descriptor |-> 4, params |-> <<>>,
          code |-> [max_stack |-> 1, max_locals |-> 0,
                    bytecode |-> <<8, 172>>]],
         [name |-> 3, descriptor |-> 5, params |-> <<"I">>,
          code |-> [max_stack |-> 1, max_locals |-> 1,
                    bytecode |-> <<26, 172>>]],
         [name |-> 8, descriptor |-> 9, params |-> <<"[Ljava/lang/String;">>,
          code |-> [max_stack |-> 2, max_locals |-> 1,
                    bytecode |-> <<4, 184, 0, 7, 87, 177>>]]>>]>>],
    \* 4: foo(I)I declared before foo()I; main invokes foo(I)I
    [main |-> "Main", classes |-> <<
     [constants |-> <<Utf8("Main"), ClassE(1), Utf8("foo"), Utf8("(I)I"),
          Utf8("()I"), NameType(3, 4), MethodRef(2, 6), Utf8("main"),
          Utf8("([Ljava/lang/String;)V")>>,
      this_class |-> 2,
      methods |-> <<
         [name |-> 3, descriptor |-> 4, params |-> <<"I">>,
          code |-> [max_stack |-> 1, max_locals |-> 1,
                    bytecode |-> <<26, 172>>]],
         [name |-> 3, descriptor |-> 5, params |-> <<>>,
          code |-> [max_stack |-> 1, max_locals |-> 0,
                    bytecode |-> <<8, 172>>]],
         [name |-> 8, descriptor |-> 9, params |-> <<"[Ljava/lang/String;">>,
          code |-> [max_stack |-> 2, max_locals |-> 1,
                    bytecode |-> <<4, 184, 0, 7, 87, 177>>]]>>]>>],
    \* 5: main(I)V declared before main([Ljava/lang/String;)V
    [main |-> "Main", classes |-> <<
     [constants |-> <<Utf8("Main"), ClassE(1), Utf8("main"), Utf8("(I)V"),
          Utf8("([Ljava/lang/String;)V")>>,
      this_class |-> 2,
      methods |-> <<
         [name |-> 3, descriptor |-> 4, params |-> <<"I">>,
          code |-> [max_stack |-> 1, max_locals |-> 1,
                    bytecode |-> <<0, 177>>]],
         [name |-> 3, descriptor |-> 5, params |-> <<"[Ljava/lang/String;">>,
          code |-> [max_stack |-> 1, max_locals |-> 1,
                    bytecode |-> <<3, 87, 177>>]]>>]>>],
    \* 6: a counting loop, if_icmplt, jsr
    [main |-> "Main", classes |-> <<
     [constants |-> <<Utf8("Main"), ClassE(1), Utf8("main"), Utf8("([Ljava/lang/String;)V")>>,
      this_class |-> 2,
      methods |-> <<
         [name |-> 3, descriptor |-> 4, params |-> <<"[Ljava/lang/String;">>,
          code |-> [max_stack |-> 2, max_locals |-> 1,
                    bytecode |-> <<5, 59, 26, 153, 0, 9, 132, 0, 255, 167, 255, 249, 17, 0, 10, 17, 0, 20, 161, 0, 5, 3, 177, 168, 0, 4, 177, 87, 167, 255, 254>>]]>>]>>],
    \* 7: if_icmpge on 1, 2
    [main |-> "Main", classes |-> <<
     [constants |-> <<Utf8("Main"), ClassE(1), Utf8("main"), Utf8("([Ljava/lang/String;)V")>>,
      this_class |-> 2,
      methods |-> <<
         [name |-> 3, descriptor |-> 4, params |-> <<"[Ljava/lang/String;">>,
          code |-> [max_stack |-> 2, max_locals |-> 1,
                    bytecode |-> <<16, 1, 16, 2, 162, 0, 4, 0, 177>>]]>>]>>],
    \* 8: if_icmpeq on 3, 3
    [main |-> "Main", classes |-> <<
     [constants |-> <<Utf8("Main"), ClassE(1), Utf8("main"), Utf8("([Ljava/lang/String;)V")>>,
      this_class |-> 2,
      methods |-> <<
         [name |-> 3, descriptor |-> 4, params |-> <<"[Ljava/lang/String;">>,
          code |-> [max_stack |-> 2, max_locals |-> 1,
                    bytecode |-> <<16, 3, 16, 3, 159, 0, 4, 0, 177>>]]>>]>>],
    \* 9: if_icmpne on 3, 3
    [main |-> "Main", classes |-> <<
     [constants |-> <<Utf8("Main"), ClassE(1), Utf8("main"), Utf8("([Ljava/lang/String;)V")>>,
      this_class |-> 2,
      methods |-> <<
         [name |-> 3, descriptor |-> 4, params |-> <<"[Ljava/lang/String;">>,
          code |-> [max_stack |-> 2, max_locals |-> 1,
                    bytecode |-> <<16, 3, 16, 3, 160, 0, 4, 0, 177>>]]>>]>>],
    \* 10: if_icmpgt on 2, 1
    [main |-> "Main", classes |-> <<
     [constants |-> <<Utf8("Main"), ClassE(1), Utf8("main"), Utf8("([Ljava/lang/String;)V")>>,
      this_class |-> 2,
      methods |-> <<
         [name |-> 3, descriptor |-> 4, params |-> <<"[Ljava/lang/String;">>,
          code |-> [max_stack |-> 2, max_locals |-> 1,
                    bytecode |-> <<16, 2, 16, 1, 163, 0, 4, 0, 177>>]]>>]>>],
    \* 11: if_icmple on 2, 1
    [main |-> "Main", classes |-> <<
     [constants |-> <<Utf8("Main"), ClassE(1), Utf8("main"), Utf8("([Ljava/lang/String;)V")>>,
      this_class |-> 2,
      methods |-> <<
         [name |-> 3, descriptor |-> 4, params |-> <<"[Ljava/lang/String;">>,
          code |-> [max_stack |-> 2, max_locals |-> 1,
                    bytecode |-> <<16, 2, 16, 1, 164, 0, 4, 0, 177>>]]>>]>>],
    \* 12: if_icmpeq on -1, 1
    [main |-> "Main", classes |-> <<
     [constants |-> <<Utf8("Main"), ClassE(1), Utf8("main"), Utf8("([Ljava/lang/String;)V")>>,
      this_class |-> 2,
      methods |-> <<
         [name |-> 3, descriptor |-> 4, params |-> <<"[Ljava/lang/String;">>,
          code |-> [max_stack |-> 2, max_locals |-> 1,
                    bytecode |-> <<16, 255, 17, 0, 1, 159, 0, 4, 0, 177>>]]>>]>>],
    \* 13: if_icmpeq on 1, -1
    [main |-> "Main", classes |-> <<
     [constants |-> <<Utf8("Main"), ClassE(1), Utf8("main"), Utf8("([Ljava/lang/String;)V")>>,
      this_class |-> 2,
      methods |-> <<
         [name |-> 3, descriptor |-> 4, params |-> <<"[Ljava/lang/String;">>,
          code |-> [max_stack |-> 2, max_locals |-> 1,
                    bytecode |-> <<16, 1, 17, 255, 255, 159, 0, 4, 0, 177>>]]>>]>>],
    \* 14: if_icmpeq on -2, -2
    [main |-> "Main", classes |-> <<
     [constants |-> <<Utf8("Main"), ClassE(1), Utf8("main"), Utf8("([Ljava/lang/String;)V")>>,
      this_class |-> 2,
      methods |-> <<
         [name |-> 3, descriptor |-> 4, params |-> <<"[Ljava/lang/String;">>,
          code |-> [max_stack |-> 2, max_locals |-> 1,
                    bytecode |-> <<16, 254, 17, 255, 254, 159, 0, 4, 0, 177>>]]>>]>>],
    \* 15: if_icmpne on -1, 1
    [main |-> "Main", classes |-> <<
     [constants |-> <<Utf8("Main"), ClassE(1), Utf8("main"), Utf8("([Ljava/lang/String;)V")>>,
      this_class |-> 2,
      methods |-> <<
         [name |-> 3, descriptor |-> 4, params |-> <<"[Ljava/lang/String;">>,
          code |-> [max_stack |-> 2, max_locals |-> 1,
                    bytecode |-> <<16, 255, 17, 0, 1, 160, 0, 4, 0, 177>>]]>>]>>],
    \* 16: if_icmpne on 1, -1
    [main |-> "Main", classes |-> <<
     [constants |-> <<Utf8("Main"), ClassE(1), Utf8("main"), Utf8("([Ljava/lang/String;)V")>>,
      this_class |-> 2,
      methods |-> <<
         [name |-> 3, descriptor |-> 4, params |-> <<"[Ljava/lang/String;">>,
          code |-> [max_stack |-> 2, max_locals |-> 1,
                    bytecode |-> <<16, 1, 17, 255, 255, 160, 0, 4, 0, 177>>]]>>]>>],
    \* 17: if_icmpne on -2, -2
    [main |-> "Main", classes |-> <<
     [constants |-> <<Utf8("Main"), ClassE(1), Utf8("main"), Utf8("([Ljava/lang/String;)V")>>,
      this_class |-> 2,
      methods |-> <<
         [name |-> 3, descriptor |-> 4, params |-> <<"[Ljava/lang/String;">>,
          code |-> [max_stack |-> 2, max_locals |-> 1,
                    bytecode |-> <<16, 254, 17, 255, 254, 160, 0, 4, 0, 177>>]]>>]>>],
    \* 18: if_icmplt on -1, 1
    [main |-> "Main", classes |-> <<
     [constants |-> <<Utf8("Main"), ClassE(1), Utf8("main"), Utf8("([Ljava/lang/String;)V")>>,
      this_class |-> 2,
      methods |-> <<
         [name |-> 3, descriptor |-> 4, params |-> <<"[Ljava/lang/String;">>,
          code |-> [max_stack |-> 2, max_locals |-> 1,
                    bytecode |-> <<16, 255, 17, 0, 1, 161, 0, 4, 0, 177>>]]>>]>>],
    \* 19: if_icmplt on 1, -1
    [main |-> "Main", classes |-> <<
     [constants |-> <<Utf8("Main"), ClassE(1), Utf8("main"), Utf8("([Ljava/lang/String;)V")>>,
      this_class |-> 2,
      methods |-> <<
         [name |-> 3, descriptor |-> 4, params |-> <<"[Ljava/lang/String;">>,
          code |-> [max_stack |-> 2, max_locals |-> 1,
                    bytecode |-> <<16, 1, 17, 255, 255, 161, 0, 4, 0, 177>>]]>>]>>],
    \* 20: if_icmplt on -2, -2
    [main |-> "Main", classes |-> <<
     [constants |-> <<Utf8("Main"), ClassE(1), Utf8("main"), Utf8("([Ljava/lang/String;)V")>>,
      this_class |-> 2,
      methods |-> <<
         [name |-> 3, descriptor |-> 4, params |-> <<"[Ljava/lang/String;">>,
          code |-> [max_stack |-> 2, max_locals |-> 1,
                    bytecode |-> <<16, 254, 17, 255, 254, 161, 0, 4, 0, 177>>]]>>]>>],
    \* 21: if_icmpge on -1, 1
    [main |-> "Main", classes |-> <<
     [constants |-> <<Utf8("Main"), ClassE(1), Utf8("main"), Utf8("([Ljava/lang/String;)V")>>,
      this_class |-> 2,
      methods |-> <<
         [name |-> 3, descriptor |-> 4, params |-> <<"[Ljava/lang/String;">>,
          code |-> [max_stack |-> 2, max_locals |-> 1,
                    bytecode |-> <<16, 255, 17, 0, 1, 162, 0, 4, 0, 177>>]]>>]>>],
    \* 22: if_icmpge on 1, -1
    [main |-> "Main", classes |-> <<
     [constants |-> <<Utf8("Main"), ClassE(1), Utf8("main"), Utf8("([Ljava/lang/String;)V")>>,
      this_class |-> 2,
      methods |-> <<
         [name |-> 3, descriptor |-> 4, params |-> <<"[Ljava/lang/String;">>,
          code |-> [max_stack |-> 2, max_locals |-> 1,
                    bytecode |-> <<16, 1, 17, 255, 255, 162, 0, 4, 0, 177>>]]>>]>>],
    \* 23: if_icmpge on -2, -2
    [main |-> "Main", classes |-> <<
     [constants |-> <<Utf8("Main"), ClassE(1), Utf8("main"), Utf8("([Ljava/lang/String;)V")>>,
      this_class |-> 2,
      methods |-> <<
         [name |-> 3, descriptor |-> 4, params |-> <<"[Ljava/lang/String;">>,
          code |-> [max_stack |-> 2, max_locals |-> 1,
                    bytecode |-> <<16, 254, 17, 255, 254, 162, 0, 4, 0, 177>>]]>>]>>],
    \* 24: if_icmpgt on -1, 1
    [main |-> "Main", classes |-> <<
     [constants |-> <<Utf8("Main"), ClassE(1), Utf8("main"), Utf8("([Ljava/lang/String;)V")>>,
      this_class |-> 2,
      methods |-> <<
         [name |-> 3, descriptor |-> 4, params |-> <<"[Ljava/lang/String;">>,
          code |-> [max_stack |-> 2, max_locals |-> 1,
                    bytecode |-> <<16, 255, 17, 0, 1, 163, 0, 4, 0, 177>>]]>>]>>],
    \* 25: if_icmpgt on 1, -1
    [main |-> "Main", classes |-> <<
     [constants |-> <<Utf8("Main"), ClassE(1), Utf8("main"), Utf8("([Ljava/lang/String;)V")>>,
      this_class |-> 2,
      methods |-> <<
         [name |-> 3, descriptor |-> 4, params |-> <<"[Ljava/lang/String;">>,
          code |-> [max_stack |-> 2, max_locals |-> 1,
                    bytecode |-> <<16, 1, 17, 255, 255, 163, 0, 4, 0, 177>>]]>>]>>],
    \* 26: if_icmpgt on -2, -2
    [main |-> "Main", classes |-> <<
     [constants |-> <<Utf8("Main"), ClassE(1), Utf8("main"), Utf8("([Ljava/lang/String;)V")>>,
      this_class |-> 2,
      methods |-> <<
         [name |-> 3, descriptor |-> 4, params |-> <<"[Ljava/lang/String;">>,
          code |-> [max_stack |-> 2, max_locals |-> 1,
                    bytecode |-> <<16, 254, 17, 255, 254, 163, 0, 4, 0, 177>>]]>>]>>],
    \* 27: if_icmple on -1, 1
    [main |-> "Main", classes |-> <<
     [constants |-> <<Utf8("Main"), ClassE(1), Utf8("main"), Utf8("([Ljava/lang/String;)V")>>,
      this_class |-> 2,
      methods |-> <<
         [name |-> 3, descriptor |-> 4, params |-> <<"[Ljava/lang/String;">>,
          code |-> [max_stack |-> 2, max_locals |-> 1,
                    bytecode |-> <<16, 255, 17, 0, 1, 164, 0, 4, 0, 177>>]]>>]>>],
    \* 28: if_icmple on 1, -1
    [main |-> "Main", classes |-> <<
     [constants |-> <<Utf8("Main"), ClassE(1), Utf8("main"), Utf8("([Ljava/lang/String;)V")>>,
      this_class |-> 2,
      methods |-> <<
         [name |-> 3, descriptor |-> 4, params |-> <<"[Ljava/lang/String;">>,
          code |-> [max_stack |-> 2, max_locals |-> 1,
                    bytecode |-> <<16, 1, 17, 255, 255, 164, 0, 4, 0, 177>>]]>>]>>],
    \* 29: if_icmple on -2, -2
    [main |-> "Main", classes |-> <<
     [constants |-> <<Utf8("Main"), ClassE(1), Utf8("main"), Utf8("([Ljava/lang/String;)V")>>,
      this_class |-> 2,
      methods |-> <<
         [name |-> 3, descriptor |-> 4, params |-> <<"[Ljava/lang/String;">>,
          code |-> [max_stack |-> 2, max_locals |-> 1,
                    bytecode |-> <<16, 254, 17, 255, 254, 164, 0, 4, 0, 177>>]]>>]>>],
    \* 30: ifne on 0
    [main |-> "Main", classes |-> <<
     [constants |-> <<Utf8("Main"), ClassE(1), Utf8("main"), Utf8("([Ljava/lang/String;)V")>>,
      this_class |-> 2,
      methods |-> <<
         [name |-> 3, descriptor |-> 4, params |-> <<"[Ljava/lang/String;">>,
          code |-> [max_stack |-> 1, max_locals |-> 1,
                    bytecode |-> <<16, 0, 154, 0, 5, 0, 0, 177>>]]>>]>>],
    \* 31: iflt on -1
    [main |-> "Main", classes |-> <<
     [constants |-> <<Utf8("Main"), ClassE(1), Utf8("main"), Utf8("([Ljava/lang/String;)V")>>,
      this_class |-> 2,
      methods |-> <<
         [name |-> 3, descriptor |-> 4, params |-> <<"[Ljava/lang/String;">>,
          code |-> [max_stack |-> 1, max_locals |-> 1,
                    bytecode |-> <<16, 255, 155, 0, 5, 0, 0, 177>>]]>>]>>],
    \* 32: ifle on 1
    [main |-> "Main", classes |-> <<
     [constants |-> <<Utf8("Main"), ClassE(1), Utf8("main"), Utf8("([Ljava/lang/String;)V")>>,
      this_class |-> 2,
      methods |-> <<
         [name |-> 3, descriptor |-> 4, params |-> <<"[Ljava/lang/String;">>,
          code |-> [max_stack |-> 1, max_locals |-> 1,
                    bytecode |-> <<16, 1, 158, 0, 5, 0, 0, 177>>]]>>]>>],
    \* 33: ifgt on 1
    [main |-> "Main", classes |-> <<
     [constants |-> <<Utf8("Main"), ClassE(1), Utf8("main"), Utf8("([Ljava/lang/String;)V")>>,
      this_class |-> 2,
      methods |-> <<
         [name |-> 3, descriptor |-> 4, params |-> <<"[Ljava/lang/String;">>,
          code |-> [max_stack |-> 1, max_locals |-> 1,
                    bytecode |-> <<16, 1, 157, 0, 5, 0, 0, 177>>]]>>]>>],
    \* 34: ifge on -1
    [main |-> "Main", classes |-> <<
     [constants |-> <<Utf8("Main"), ClassE(1), Utf8("main"), Utf8("([Ljava/lang/String;)V")>>,
      this_class |-> 2,
      methods |-> <<
         [name |-> 3, descriptor |-> 4, params |-> <<"[Ljava/lang/String;">>,
          code |-> [max_stack |-> 1, max_locals |-> 1,
                    bytecode |-> <<16, 255, 156, 0, 5, 0, 0, 177>>]]>>]>>],
    \* 35: tableswitch at pc 2, key -1
    [main |-> "Main", classes |-> <<
     [constants |-> <<Utf8("Main"), ClassE(1), Utf8("main"), Utf8("([Ljava/lang/String;)V")>>,
      this_class |-> 2,
      methods |-> <<
         [name |-> 3, descriptor |-> 4, params |-> <<"[Ljava/lang/String;">>,
          code |-> [max_stack |-> 1, max_locals |-> 1,
                    bytecode |-> <<16, 255, 170, 0, 0, 0, 0, 29, 0, 0, 0, 0, 0, 0, 0, 2, 0, 0, 0, 26, 0, 0, 0, 27, 0, 0, 0, 28, 0, 0, 0, 177>>]]>>]>>],
    \* 36: tableswitch at pc 2, key 0
    [main |-> "Main", classes |-> <<
     [constants |-> <<Utf8("Main"), ClassE(1), Utf8("main"), Utf8("([Ljava/lang/String;)V")>>,
      this_class |-> 2,
      methods |-> <<
         [name |-> 3, descriptor |-> 4, params |-> <<"[Ljava/lang/String;">>,
          code |-> [max_stack |-> 1, max_locals |-> 1,
                    bytecode |-> <<16, 0, 170, 0, 0, 0, 0, 29, 0, 0, 0, 0, 0, 0, 0, 2, 0, 0, 0, 26, 0, 0, 0, 27, 0, 0, 0, 28, 0, 0, 0, 177>>]]>>]>>],
    \* 37: tableswitch at pc 2, key 1
    [main |-> "Main", classes |-> <<
     [constants |-> <<Utf8("Main"), ClassE(1), Utf8("main"), Utf8("([Ljava/lang/String;)V")>>,
      this_class |-> 2,
      methods |-> <<
         [name |-> 3, descriptor |-> 4, params |-> <<"[Ljava/lang/String;">>,
          code |-> [max_stack |-> 1, max_locals |-> 1,
                    bytecode |-> <<16, 1, 170, 0, 0, 0, 0, 29, 0, 0, 0, 0, 0, 0, 0, 2, 0, 0, 0, 26, 0, 0, 0, 27, 0, 0, 0, 28, 0, 0, 0, 177>>]]>>]>>],
    \* 38: tableswitch at pc 2, key 2
    [main |-> "Main", classes |-> <<
     [constants |-> <<Utf8("Main"), ClassE(1), Utf8("main"), Utf8("([Ljava/lang/String;)V")>>,
      this_class |-> 2,
      methods |-> <<
         [name |-> 3, descriptor |-> 4, params |-> <<"[Ljava/lang/String;">>,
          code |-> [max_stack |-> 1, max_locals |-> 1,
                    bytecode |-> <<16, 2, 170, 0, 0, 0, 0, 29, 0, 0, 0, 0, 0, 0, 0, 2, 0, 0, 0, 26, 0, 0, 0, 27, 0, 0, 0, 28, 0, 0, 0, 177>>]]>>]>>],
    \* 39: tableswitch at pc 2, key 3
    [main |-> "Main", classes |-> <<
     [constants |-> <<Utf8("Main"), ClassE(1), Utf8("main"), Utf8("([Ljava/lang/String;)V")>>,
      this_class |-> 2,
      methods |-> <<
         [name |-> 3, descriptor |-> 4, params |-> <<"[Ljava/lang/String;">>,
          code |-> [max_stack |-> 1, max_locals |-> 1,
                    bytecode |-> <<16, 3, 170, 0, 0, 0, 0, 29, 0, 0, 0, 0, 0, 0, 0, 2, 0, 0, 0, 26, 0, 0, 0, 27, 0, 0, 0, 28, 0, 0, 0, 177>>]]>>]>>],
    \* 40: lookupswitch at pc 4, key 0
    [main |-> "Main", classes |-> <<
     [constants |-> <<Utf8("Main"), ClassE(1), Utf8("main"), Utf8("([Ljava/lang/String;)V")>>,
      this_class |-> 2,
      methods |-> <<
         [name |-> 3, descriptor |-> 4, params |-> <<"[Ljava/lang/String;">>,
          code |-> [max_stack |-> 1, max_locals |-> 1,
                    bytecode |-> <<16, 0, 0, 0, 171, 0, 0, 0, 0, 0, 0, 30, 0, 0, 0, 2, 0, 0, 0, 0, 0, 0, 0, 28, 0, 0, 0, 3, 0, 0, 0, 29, 0, 0, 177>>]]>>]>>],
    \* 41: lookupswitch at pc 4, key 3
    [main |-> "Main", classes |-> <<
     [constants |-> <<Utf8("Main"), ClassE(1), Utf8("main"), Utf8("([Ljava/lang/String;)V")>>,
      this_class |-> 2,
      methods |-> <<
         [name |-> 3, descriptor |-> 4, params |-> <<"[Ljava/lang/String;">>,
          code |-> [max_stack |-> 1, max_locals |-> 1,
                    bytecode |-> <<16, 3, 0, 0, 171, 0, 0, 0, 0, 0, 0, 30, 0, 0, 0, 2, 0, 0, 0, 0, 0, 0, 0, 28, 0, 0, 0, 3, 0, 0, 0, 29, 0, 0, 177>>]]>>]>>],
    \* 42: lookupswitch at pc 4, key 7
    [main |-> "Main", classes |-> <<
     [constants |-> <<Utf8("Main"), ClassE(1), Utf8("main"), Utf8("([Ljava/lang/String;)V")>>,
      this_class |-> 2,
      methods |-> <<
         [name |-> 3, descriptor |-> 4, params |-> <<"[Ljava/lang/String;">>,
          code |-> [max_stack |-> 1, max_locals |-> 1,
                    bytecode |-> <<16, 7, 0, 0, 171, 0, 0, 0, 0, 0, 0, 30, 0, 0, 0, 2, 0, 0, 0, 0, 0, 0, 0, 28, 0, 0, 0, 3, 0, 0, 0, 29, 0, 0, 177>>]]>>]>>],
    \* 43: tableswitch at pc 1 after a call
    [main |-> "Main", classes |-> <<
     [constants |-> <<Utf8("Main"), ClassE(1), Utf8("one"), Utf8("()I"),
          NameType(3, 4), MethodRef(2, 5), Utf8("main"), Utf8("([Ljava/lang/String;)V")>>,
      this_class |-> 2,
      methods |-> <<
         [name |-> 7, descriptor |-> 8, params |-> <<"[Ljava/lang/String;">>,
          code |-> [max_stack |-> 1, max_locals |-> 1,
                    bytecode |-> <<4, 170, 0, 0, 0, 0, 0, 22, 0, 0, 0, 1, 0, 0, 0, 1, 0, 0, 0, 19, 184, 0, 6, 177>>]],
         [name |-> 3, descriptor |-> 4, params |-> <<>>,
          code |-> [max_stack |-> 1, max_locals |-> 0,
                    bytecode |-> <<4, 172>>]]>>]>>],
    \* 44: tableswitch at pc 3, low = high = 18, every target the pop at pc 20
    [main |-> "Main", classes |-> <<
     [constants |-> <<Utf8("Main"), ClassE(1), Utf8("main"), Utf8("([Ljava/lang/String;)V")>>,
      this_class |-> 2,
      methods |-> <<
         [name |-> 3, descriptor |-> 4, params |-> <<"[Ljava/lang/String;">>,
          code |-> [max_stack |-> 2, max_locals |-> 1,
                    bytecode |-> <<3, 16, 18, 170, 0, 0, 0, 17, 0, 0, 0, 18, 0, 0, 0, 18, 0, 0, 0, 17, 87, 4, 5, 87, 87, 177>>]]>>]>>],
    \* 45: tableswitch at pc 3, low = high = 0
    [main |-> "Main", classes |-> <<
     [constants |-> <<Utf8("Main"), ClassE(1), Utf8("main"), Utf8("([Ljava/lang/String;)V")>>,
      this_class |-> 2,
      methods |-> <<
         [name |-> 3, descriptor |-> 4, params |-> <<"[Ljava/lang/String;">>,
          code |-> [max_stack |-> 1, max_locals |-> 1,
                    bytecode |-> <<3, 0, 0, 170, 0, 0, 0, 17, 0, 0, 0, 0, 0, 0, 0, 0, 0, 0, 0, 17, 177>>]]>>]>>],
    \* 46: lookupswitch at pc 7, one pair
    [main |-> "Main", classes |-> <<
     [constants |-> <<Utf8("Main"), ClassE(1), Utf8("main"), Utf8("([Ljava/lang/String;)V")>>,
      this_class |-> 2,
      methods |-> <<
         [name |-> 3, descriptor |-> 4, params |-> <<"[Ljava/lang/String;">>,
          code |-> [max_stack |-> 1, max_locals |-> 1,
                    bytecode |-> <<3, 0, 0, 0, 0, 0, 0, 171, 0, 0, 0, 17, 0, 0, 0, 1, 0, 0, 0, 0, 0, 0, 0, 17, 177>>]]>>]>>],
    \* 47: dup_x1, swap, pop2, dup2, ldc
    [main |-> "Main", classes |-> <<
     [constants |-> <<Utf8("Main"), ClassE(1), Integer(7), LongE(9),
          DeadSlot, Utf8("main"), Utf8("([Ljava/lang/String;)V")>>,
      this_class |-> 2,
      methods |-> <<
         [name |-> 6, descriptor |-> 7, params |-> <<"[Ljava/lang/String;">>,
          code |-> [max_stack |-> 4, max_locals |-> 1,
                    bytecode |-> <<4, 5, 90, 95, 88, 87, 9, 92, 88, 88, 18, 3, 89, 96, 18, 4, 93, 88, 87, 88, 177>>]]>>]>>],
    \* 48: the code ends without a return
    [main |-> "Main", classes |-> <<
     [constants |-> <<Utf8("Main"), ClassE(1), Utf8("main"), Utf8("([Ljava/lang/String;)V")>>,
      this_class |-> 2,
      methods |-> <<
         [name |-> 3, descriptor |-> 4, params |-> <<"[Ljava/lang/String;">>,
          code |-> [max_stack |-> 0, max_locals |-> 1,
                    bytecode |-> <<0, 0>>]]>>]>>],
    \* 49: a branch past the end of the code
    [main |-> "Main", classes |-> <<
     [constants |-> <<Utf8("Main"), ClassE(1), Utf8("main"), Utf8("([Ljava/lang/String;)V")>>,
      this_class |-> 2,
      methods |-> <<
         [name |-> 3, descriptor |-> 4, params |-> <<"[Ljava/lang/String;">>,
          code |-> [max_stack |-> 0, max_locals |-> 1,
                    bytecode |-> <<167, 0, 5, 177, 0>>]]>>]>>],
    \* 50: a branch to before the code
    [main |-> "Main", classes |-> <<
     [constants |-> <<Utf8("Main"), ClassE(1), Utf8("main"), Utf8("([Ljava/lang/String;)V")>>,
      this_class |-> 2,
      methods |-> <<
         [name |-> 3, descriptor |-> 4, params |-> <<"[Ljava/lang/String;">>,
          code |-> [max_stack |-> 0, max_locals |-> 1,
                    bytecode |-> <<0, 167, 255, 251, 177>>]]>>]>>],
    \* 51: max_stack 1 declared, two values pushed
    [main |-> "Main", classes |-> <<
     [constants |-> <<Utf8("Main"), ClassE(1), Utf8("main"), Utf8("([Ljava/lang/String;)V")>>,
      this_class |-> 2,
      methods |-> <<
         [name |-> 3, descriptor |-> 4, params |-> <<"[Ljava/lang/String;">>,
          code |-> [max_stack |-> 1, max_locals |-> 1,
                    bytecode |-> <<4, 5, 87, 87, 177>>]]>>]>>],
    \* 52: pop of an empty stack
    [main |-> "Main", classes |-> <<
     [constants |-> <<Utf8("Main"), ClassE(1), Utf8("main"), Utf8("([Ljava/lang/String;)V")>>,
      this_class |-> 2,
      methods |-> <<
         [name |-> 3, descriptor |-> 4, params |-> <<"[Ljava/lang/String;">>,
          code |-> [max_stack |-> 1, max_locals |-> 1,
                    bytecode |-> <<0, 87, 177>>]]>>]>>],
    \* 53: iload of a local never set
    [main |-> "Main", classes |-> <<
     [constants |-> <<Utf8("Main"), ClassE(1), Utf8("main"), Utf8("([Ljava/lang/String;)V")>>,
      this_class |-> 2,
      methods |-> <<
         [name |-> 3, descriptor |-> 4, params |-> <<"[Ljava/lang/String;">>,
          code |-> [max_stack |-> 1, max_locals |-> 1,
                    bytecode |-> <<26, 177>>]]>>]>>],
    \* 54: ireturn of the only frame
    [main |-> "Main", classes |-> <<
     [constants |-> <<Utf8("Main"), ClassE(1), Utf8("main"), Utf8("([Ljava/lang/String;)V")>>,
      this_class |-> 2,
      methods |-> <<
         [name |-> 3, descriptor |-> 4, params |-> <<"[Ljava/lang/String;">>,
          code |-> [max_stack |-> 1, max_locals |-> 1,
                    bytecode |-> <<3, 172>>]]>>]>>],
    \* 55: aconst_null
    [main |-> "Main", classes |-> <<
     [constants |-> <<Utf8("Main"), ClassE(1), Utf8("main"), Utf8("([Ljava/lang/String;)V")>>,
      this_class |-> 2,
      methods |-> <<
         [name |-> 3, descriptor |-> 4, params |-> <<"[Ljava/lang/String;">>,
          code |-> [max_stack |-> 1, max_locals |-> 1,
                    bytecode |-> <<1, 177>>]]>>]>>],
    \* 56: an opcode above 0xC9
    [main |-> "Main", classes |-> <<
     [constants |-> <<Utf8("Main"), ClassE(1), Utf8("main"), Utf8("([Ljava/lang/String;)V")>>,
      this_class |-> 2,
      methods |-> <<
         [name |-> 3, descriptor |-> 4, params |-> <<"[Ljava/lang/String;">>,
          code |-> [max_stack |-> 1, max_locals |-> 1,
                    bytecode |-> <<0, 255, 177>>]]>>]>>],
    \* 57: sipush cut short
    [main |-> "Main", classes |-> <<
     [constants |-> <<Utf8("Main"), ClassE(1), Utf8("main"), Utf8("([Ljava/lang/String;)V")>>,
      this_class |-> 2,
      methods |-> <<
         [name |-> 3, descriptor |-> 4, params |-> <<"[Ljava/lang/String;">>,
          code |-> [max_stack |-> 1, max_locals |-> 1,
                    bytecode |-> <<0, 17, 0>>]]>>]>>],
    \* 58: the main class is not loaded
    [main |-> "Main", classes |-> <<
     [constants |-> <<Utf8("Other"), ClassE(1), Utf8("main"), Utf8("([Ljava/lang/String;)V")>>,
      this_class |-> 2,
      methods |-> <<
         [name |-> 3, descriptor |-> 4, params |-> <<"[Ljava/lang/String;">>,
          code |-> [max_stack |-> 0, max_locals |-> 1,
                    bytecode |-> <<177>>]]>>]>>],
    \* 59: the main class declares no main
    [main |-> "Main", classes |-> <<
     [constants |-> <<Utf8("Main"), ClassE(1), Utf8("run"), Utf8("()V")>>,
      this_class |-> 2,
      methods |-> <<
         [name |-> 3, descriptor |-> 4, params |-> <<>>,
          code |-> [max_stack |-> 0, max_locals |-> 0,
                    bytecode |-> <<177>>]]>>]>>],
    \* 60: jsr, the return address handed to a method that rets through it
    [main |-> "Main", classes |-> <<
     [constants |-> <<Utf8("Main"), ClassE(1), Utf8("sub"), Utf8("(I)V"),
          NameType(3, 4), MethodRef(2, 5), Utf8("main"), Utf8("([Ljava/lang/String;)V")>>,
      this_class |-> 2,
      methods |-> <<
         [name |-> 7, descriptor |-> 8, params |-> <<"[Ljava/lang/String;">>,
          code |-> [max_stack |-> 1, max_locals |-> 1,
                    bytecode |-> <<168, 0, 3, 184, 0, 6, 177>>]],
         [name |-> 3, descriptor |-> 4, params |-> <<"I">>,
          code |-> [max_stack |-> 0, max_locals |-> 1,
                    bytecode |-> <<169, 0, 1, 177>>]]>>]>>],
    \* 61: jsr_w forward, the return address handed on and ret to pc 6
    [main |-> "Main", classes |-> <<
     [constants |-> <<Utf8("Main"), ClassE(1), Utf8("sub"), Utf8("(I)V"),
          NameType(3, 4), MethodRef(2, 5), Utf8("main"), Utf8("([Ljava/lang/String;)V")>>,
      this_class |-> 2,
      methods |-> <<
         [name |-> 7, descriptor |-> 8, params |-> <<"[Ljava/lang/String;">>,
          code |-> [max_stack |-> 1, max_locals |-> 1,
                    bytecode |-> <<0, 201, 0, 0, 0, 6, 1, 184, 0, 6, 177>>]],
         [name |-> 3, descriptor |-> 4, params |-> <<"I">>,
          code |-> [max_stack |-> 0, max_locals |-> 1,
                    bytecode |-> <<169, 0, 0, 0, 1, 0, 0, 177>>]]>>]>>],
    \* 62: jsr backward
    [main |-> "Main", classes |-> <<
     [constants |-> <<Utf8("Main"), ClassE(1), Utf8("main"), Utf8("([Ljava/lang/String;)V")>>,
      this_class |-> 2,
      methods |-> <<
         [name |-> 3, descriptor |-> 4, params |-> <<"[Ljava/lang/String;">>,
          code |-> [max_stack |-> 1, max_locals |-> 1,
                    bytecode |-> <<167, 0, 5, 87, 177, 168, 255, 254>>]]>>]>>],
    \* 63: ret of a local that holds an int
    [main |-> "Main", classes |-> <<
     [constants |-> <<Utf8("Main"), ClassE(1), Utf8("main"), Utf8("([Ljava/lang/String;)V")>>,
      this_class |-> 2,
      methods |-> <<
         [name |-> 3, descriptor |-> 4, params |-> <<"[Ljava/lang/String;">>,
          code |-> [max_stack |-> 1, max_locals |-> 1,
                    bytecode |-> <<3, 59, 169, 0, 177>>]]>>]>>],
    \* 64: ret of a local never set
    [main |-> "Main", classes |-> <<
     [constants |-> <<Utf8("Main"), ClassE(1), Utf8("main"), Utf8("([Ljava/lang/String;)V")>>,
      this_class |-> 2,
      methods |-> <<
         [name |-> 3, descriptor |-> 4, params |-> <<"[Ljava/lang/String;">>,
          code |-> [max_stack |-> 0, max_locals |-> 1,
                    bytecode |-> <<169, 0, 177>>]]>>]>>],
    \* 65: ret of a local beyond max_locals
    [main |-> "Main", classes |-> <<
     [constants |-> <<Utf8("Main"), ClassE(1), Utf8("main"), Utf8("([Ljava/lang/String;)V")>>,
      this_class |-> 2,
      methods |-> <<
         [name |-> 3, descriptor |-> 4, params |-> <<"[Ljava/lang/String;">>,
          code |-> [max_stack |-> 0, max_locals |-> 1,
                    bytecode |-> <<169, 3, 177>>]]>>]>>],
    \* 66: main calls outer()I, which calls inner(I)I with a value and a local of its own
    [main |-> "Main", classes |-> <<
     [constants |-> <<Utf8("Main"), ClassE(1), Utf8("outer"), Utf8("()I"),
          NameType(3, 4), MethodRef(2, 5), Utf8("main"), Utf8("([Ljava/lang/String;)V"),
          Utf8("inner"), Utf8("(I)I"), NameType(9, 10), MethodRef(2, 11)>>,
      this_class |-> 2,
      methods |-> <<
         [name |-> 7, descriptor |-> 8, params |-> <<"[Ljava/lang/String;">>,
          code |-> [max_stack |-> 1, max_locals |-> 1,
                    bytecode |-> <<184, 0, 6, 87, 177>>]],
         [name |-> 3, descriptor |-> 4, params |-> <<>>,
          code |-> [max_stack |-> 2, max_locals |-> 1,
                    bytecode |-> <<5, 59, 8, 6, 184, 0, 12, 96, 26, 87, 172>>]],
         [name |-> 9, descriptor |-> 10, params |-> <<"I">>,
          code |-> [max_stack |-> 1, max_locals |-> 1,
                    bytecode |-> <<26, 172>>]]>>]>>]
>>

(***************************************************************************)
(* vm/mod.rs, execute: the state before the first instruction, and one     *)
(* action per group of arms of the match.  Every action is one turn of the *)
(* inner loop: Bytecode::next, then the arm of the instruction it yielded. *)
(***************************************************************************)
Top == call_stack[Len(call_stack)]

\* The slice the frame's Bytecode borrows.
CodeOf(f) == classes[f.cls].methods[f.meth].code.bytecode

NoStep(op) ==
    [pc |-> 0, op |-> op, a |-> 0, ok |-> TRUE, taken |-> FALSE, d |-> 0,
     pad |-> 0, next |-> 0, pre |-> call_stack]

\* The frames execute starts with: none when a lookup of main panics.
initial_call_stack(cls, main_class) ==
    LET c == ClassManager_get(cls, main_class)
        m == IF c = 0 THEN 0
             ELSE get_method(cls[c], "main", "([Ljava/lang/String;)V")
    IN  IF c = 0 \/ m = 0 THEN <<>>
        ELSE <<CallFrame_new(c, m, cls[c].methods[m].code)>>

NoGet == [called |-> FALSE, i |-> 0, ok |-> TRUE, val |-> NoValue]
NoSet == [op |-> "new", i |-> 0, val |-> NoValue, ok |-> TRUE, pre |-> <<>>,
          written |-> {}, got |-> NoGet]
IdleLocals == locals = <<>> /\ lop = NoSet
NoCpGet == [called |-> FALSE, i |-> 0, ok |-> TRUE, val |-> NoEntry]
IdleCpool == cpool = <<>> /\ cop = [added |-> <<>>, got |-> NoCpGet]
NotParsed == [st |-> "none", err |-> "", pos |-> 0, val |-> <<>>]
IdleParse == file = <<>> /\ parsed = NotParsed
NoSwitch == [kind |-> "none", dflt |-> 0, low |-> 0, offsets |-> <<>>, pairs |-> <<>>]
IdleSwitch == look = [table |-> NoSwitch, code |-> <<>>, key |-> 0, done |-> FALSE, ret |-> 0]
NoArm == [opcode |-> 0, op |-> "none", a |-> 0, pre |-> <<>>, ok |-> TRUE, stack |-> <<>>]
IdleArith == ar = NoArm
NoRead == [op |-> "new", n |-> 0, st |-> "Ok", val |-> 0, bytes |-> <<>>, pre |-> <<>>]
IdleReader == rd = [slice |-> <<>>, last |-> NoRead]
NoString ==
    [v |-> <<>>, state |-> "new", res |-> Valid, slice |-> <<>>, out |-> <<>>,
     fwd |-> <<>>, rslice |-> <<>>, back |-> <<>>, rdone |-> FALSE]
IdleString == jstr = NoString
NoConv == [done |-> FALSE, owned |-> FALSE, bytes |-> <<>>]
NoLit == [done |-> FALSE, ok |-> TRUE, buf |-> <<>>]
NoEq == [done |-> FALSE, java |-> <<>>, res |-> FALSE]
NoRstr == [chars |-> <<>>, conv |-> NoConv, lit |-> NoLit, eq |-> NoEq]
NoDesc == [val |-> [k |-> "None"], text |-> <<>>, done |-> FALSE]
IdleText == rstr = NoRstr /\ desc = NoDesc
IdleUnits ==
    /\ IdleLocals /\ IdleCpool /\ IdleParse /\ IdleSwitch
    /\ IdleArith /\ IdleReader /\ IdleString /\ IdleText
\* The build: debug-assertions puts overflow checks on +, - and * (a dev
\* build) or leaves them out (a release build).
AnyBuild == overflow_checks \in BOOLEAN

IdleIter == bc = [code |-> <<>>, pc |-> 0, state |-> "idle"] /\ yielded = <<>>

Init ==
    /\ \E s \in 1..Len(Scenarios) :
          /\ classes = Scenarios[s].classes
          /\ call_stack = initial_call_stack(Scenarios[s].classes, Scenarios[s].main)
    /\ status = IF call_stack = <<>> THEN "aborted" ELSE "running"
    /\ last = [pc |-> 0, op |-> "start", a |-> 0, ok |-> call_stack # <<>>,
               taken |-> FALSE, d |-> 0, pad |-> 0, next |-> 0, pre |-> <<>>]
    /\ IdleStack
    /\ IdleIter
    /\ IdleUnits
    /\ AnyBuild

\* The outer loop found a frame and its cursor yields an instruction.
Fetching ==
    /\ status = "running"
    /\ call_stack # <<>>
    /\ Bytecode_next(CodeOf(Top), Top.pc).some

\* What frame.bytecode.next() yields.
Yield == Bytecode_next(CodeOf(Top), Top.pc).inst

\* The top frame once next() has moved its cursor past the instruction.
Advanced == [Top EXCEPT !.pc = Yield.next]

Executed(ok, taken, d) ==
    [pc |-> Top.pc, op |-> Yield.op, a |-> Yield.a, ok |-> ok, taken |-> taken,
     d |-> d, pad |-> Yield.pad, next |-> Yield.next, pre |-> call_stack]

\* An arm that works on the top frame alone; the inner loop goes on.
FrameStep(r) ==
    /\ call_stack' = IF r.ok THEN [call_stack EXCEPT ![Len(call_stack)] = r.f]
                     ELSE call_stack
    /\ status' = IF r.ok THEN "running" ELSE "aborted"
    /\ last' = Executed(r.ok, r.taken, r.d)
    /\ UNCHANGED <<classes, stackVars, iterVars, unitVars>>

\* An arm that ends with break 'method: the outer loop looks at the call stack.
CallStep(r) ==
    /\ call_stack' = IF r.ok THEN r.cs ELSE call_stack
    /\ status' = IF r.ok THEN loop_status(r.cs) ELSE "aborted"
    /\ last' = Executed(r.ok, FALSE, 0)
    /\ UNCHANGED <<classes, stackVars, iterVars, unitVars>>

ExecSimple ==
    /\ Fetching
    /\ Yield.ok
    /\ Yield.op \in SimpleOps
    /\ FrameStep(exec_simple(Advanced, Yield, classes[Top.cls].constants))

ExecJump ==
    /\ Fetching
    /\ Yield.ok
    /\ Yield.op \in JumpOps
    /\ FrameStep(exec_jump(Advanced, Top.pc, Yield))

ExecSwitch ==
    /\ Fetching
    /\ Yield.ok
    /\ Yield.op \in SwitchOps
    /\ FrameStep(exec_switch(Advanced, Top.pc, Yield, CodeOf(Top)))

ExecReturn ==
    /\ Fetching
    /\ Yield.ok
    /\ Yield.op \in ReturnOps
    /\ CallStep(exec_return([call_stack EXCEPT ![Len(call_stack)] = Advanced], Yield.op))

ExecInvokeStatic ==
    /\ Fetching
    /\ Yield.ok
    /\ Yield.op = "invokestatic"
    /\ CallStep(exec_invokestatic([call_stack EXCEPT ![Len(call_stack)] = Advanced],
                                  Yield.a, classes))

\* inst => todo!(..)
ExecUnsupported ==
    /\ Fetching
    /\ Yield.ok
    /\ Yield.op \in UnsupportedOps
    /\ FrameStep(FPanic(Top))

\* parse_instruction(..).unwrap() of an Err, or a panic of the decoder
DecodeAbort ==
    /\ Fetching
    /\ ~Yield.ok
    /\ FrameStep(FPanic(Top))

\* next() returns None: the inner loop ends with the frame still on the call
\* stack, and the outer loop selects the same frame again.
CursorExhausted ==
    /\ status = "running"
    /\ call_stack # <<>>
    /\ ~Bytecode_next(CodeOf(Top), Top.pc).some
    /\ status' = loop_status(call_stack)
    /\ last' = NoStep("None")
    /\ UNCHANGED <<classes, call_stack, stackVars, iterVars, unitVars>>

Next ==
    \/ ExecSimple
    \/ ExecJump
    \/ ExecSwitch
    \/ ExecReturn
    \/ ExecInvokeStatic
    \/ ExecUnsupported
    \/ DecodeAbort
    \/ CursorExhausted

Spec == Init /\ [][Next]_vars

(***************************************************************************)
(* The operand stack on its own (vm/call_frame.rs): Stack::new, then any   *)
(* sequence of its operations.                                             *)
(***************************************************************************)
IdleVm ==
    /\ classes = <<>>
    /\ call_stack = <<>>
    /\ status = "idle"
    /\ last = [pc |-> 0, op |-> "start", a |-> 0, ok |-> TRUE, taken |-> FALSE,
               d |-> 0, pad |-> 0, next |-> 0, pre |-> <<>>]

StackInit == IdleStack /\ IdleVm /\ IdleIter /\ IdleUnits /\ overflow_checks = FALSE

StackNext ==
    \/ StackPush
    \/ StackPop
    \/ StackInstPop
    \/ StackInstPop2
    \/ StackDup
    \/ StackSwap

SpecStack == StackInit /\ [][StackNext]_vars

(***************************************************************************)
(* A Bytecode cursor on its own (vm/class/instruction.rs): Bytecode::new   *)
(* over the code of a method, then next() again and again, set_pc never.   *)
(***************************************************************************)
Range(f) == {f[i] : i \in DOMAIN f}

\* The code arrays of the methods of the class files above.
IterCodes ==
    UNION {UNION {{m.code.bytecode : m \in Range(c.methods)} :
                     c \in Range(sc.classes)} : sc \in Range(Scenarios)}

IterInit ==
    /\ \E code \in IterCodes : bc = [code |-> code, pc |-> 0, state |-> "iterating"]
    /\ yielded = <<>>
    /\ IdleStack
    /\ IdleVm
    /\ IdleUnits
    /\ overflow_checks = FALSE

\* next() returns Some((pc, instruction))
BytecodeNextSome ==
    /\ bc.state = "iterating"
    /\ Bytecode_next(bc.code, bc.pc).some
    /\ LET inst == Bytecode_next(bc.code, bc.pc).inst IN
          /\ inst.ok
          /\ yielded' = Append(yielded, [pc |-> bc.pc, op |-> inst.op, next |-> inst.next])
          /\ bc' = [bc EXCEPT !.pc = inst.next]
    /\ UNCHANGED <<stackVars, vmVars, unitVars>>

\* next() panics in parse_instruction(..).unwrap()
BytecodeNextPanic ==
    /\ bc.state = "iterating"
    /\ Bytecode_next(bc.code, bc.pc).some
    /\ ~Bytecode_next(bc.code, bc.pc).inst.ok
    /\ bc' = [bc EXCEPT !.state = "panicked"]
    /\ UNCHANGED <<yielded, stackVars, vmVars, unitVars>>

\* next() returns None, and again on every later call
BytecodeNextNone ==
    /\ bc.state \in {"iterating", "none"}
    /\ ~Bytecode_next(bc.code, bc.pc).some
    /\ bc' = [bc EXCEPT !.state = "none"]
    /\ UNCHANGED <<yielded, stackVars, vmVars, unitVars>>

IterNext ==
    \/ BytecodeNextSome
    \/ BytecodeNextPanic
    \/ BytecodeNextNone

SpecIter == IterInit /\ [][IterNext]_vars

(***************************************************************************)
(* A locals array on its own (vm/call_frame.rs): Locals::new(n), then any  *)
(* sequence of set and get.  A panic ends the run.                         *)
(***************************************************************************)
MaxLocals == 3

LocalValues == {Value_Int(1), Value_Float(3), Value_Long(2), Value_Double(4)}

LocalsInit ==
    /\ \E n \in 0..MaxLocals : locals = Locals_new(n)
    /\ lop = NoSet
    /\ IdleCpool
    /\ IdleParse
    /\ IdleSwitch
    /\ IdleStack
    /\ IdleVm
    /\ IdleIter
    /\ IdleArith /\ IdleReader /\ IdleString /\ IdleText
    /\ overflow_checks = FALSE

LocalsSet ==
    /\ lop.ok /\ lop.got.ok
    /\ \E i \in 0..MaxLocals, val \in LocalValues :
          LET r == Locals_set(locals, i, val) IN
          /\ locals' = r.slots
          /\ lop' = [op |-> "set", i |-> i, val |-> val, ok |-> r.ok, pre |-> locals,
                     written |-> IF r.ok THEN lop.written \cup {i} ELSE lop.written,
                     got |-> NoGet]
    /\ UNCHANGED <<newUnits, cpoolVars, parseVars, switchVars, stackVars, vmVars, iterVars>>

LocalsGet ==
    /\ lop.ok /\ lop.got.ok
    /\ \E i \in 0..MaxLocals :
          LET r == Locals_get(locals, i) IN
          lop' = [lop EXCEPT !.got = [called |-> TRUE, i |-> i, ok |-> r.ok, val |-> r.val]]
    /\ UNCHANGED <<newUnits, locals, cpoolVars, parseVars, switchVars, stackVars, vmVars, iterVars>>

LocalsNext ==
    \/ LocalsSet
    \/ LocalsGet

SpecLocals == LocalsInit /\ [][LocalsNext]_vars

(***************************************************************************)
(* A constant pool on its own (constant_pool.rs): ConstantPool::new, then  *)
(* any sequence of add and get.  A panic ends the run.                     *)
(***************************************************************************)
MaxEntries == 3

PoolEntries == {Utf8("a"), Integer(1), LongE(2), DoubleE(3)}

CpoolInit ==
    /\ cpool = <<>>
    /\ cop = [added |-> <<>>, got |-> NoCpGet]
    /\ IdleLocals
    /\ IdleParse
    /\ IdleSwitch
    /\ IdleStack
    /\ IdleVm
    /\ IdleIter
    /\ IdleArith /\ IdleReader /\ IdleString /\ IdleText
    /\ overflow_checks = FALSE

CpoolAdd ==
    /\ cop.got.ok
    /\ Len(cop.added) < MaxEntries
    /\ \E entry \in PoolEntries :
          /\ cpool' = ConstantPool_add(cpool, entry)
          /\ cop' = [added |-> Append(cop.added, entry), got |-> NoCpGet]
    /\ UNCHANGED <<newUnits, localsVars, parseVars, switchVars, stackVars, vmVars, iterVars>>

\* get with any ConstantIdx (a NonZeroU16) up to one past the slots the pool
\* can have
CpoolGet ==
    /\ cop.got.ok
    /\ \E index \in 1..(2 * MaxEntries + 1) :
          LET e == ConstantPool_get(cpool, index) IN
          cop' = [cop EXCEPT !.got = [called |-> TRUE, i |-> index,
                                      ok |-> e # NoEntry, val |-> e]]
    /\ UNCHANGED <<newUnits, cpool, localsVars, parseVars, switchVars, stackVars, vmVars, iterVars>>

CpoolNext ==
    \/ CpoolAdd
    \/ CpoolGet

SpecCpool == CpoolInit /\ [][CpoolNext]_vars

(***************************************************************************)
(* The class-file decoder on its own: ClassManager::load (vm/mod.rs) of    *)
(* one file.  The files are a class file that parses, every prefix of it,  *)
(* and it with any one byte replaced.                                      *)
(***************************************************************************)
BaseClassFile ==
    <<
       \* offset 0: magic
       202, 254, 186, 190,
       \* offset 4: minor
       0, 0,
       \* offset 6: major
       0, 52,
       \* offset 8: cp_count
       0, 10,
       \* offset 10: cp1 Utf8 "A"
       1, 0, 1, 65,
       \* offset 14: cp2 Class #1
       7, 0, 1,
       \* offset 17: cp3 Utf8 "Code"
       1, 0, 4, 67, 111, 100, 101,
       \* offset 24: cp4 Long (slots 4, 5)
       5, 0, 0, 0, 1, 0, 0, 0, 2,
       \* offset 33: cp6 Utf8 "m"
       1, 0, 1, 109,
       \* offset 37: cp7 Utf8 "()V"
       1, 0, 3, 40, 41, 86,
       \* offset 43: cp8 NameType #6 #7
       12, 0, 6, 0, 7,
       \* offset 48: cp9 MethodRef #2 #8
       10, 0, 2, 0, 8,
       \* offset 53: access_flags
       0, 33,
       \* offset 55: this_class
       0, 2,
       \* offset 57: super_class
       0, 0,
       \* offset 59: interfaces
       0, 1, 0, 2,
       \* offset 63: fields: 1 field, 1 attribute "A" of 1 byte
       0, 1, 0, 0, 0, 6, 0, 7, 0, 1, 0, 1, 0, 0, 0, 1, 0,
       \* offset 80: methods: 1 method, flags, name, descriptor, 1 attribute
       0, 1, 0, 9, 0, 6, 0, 7, 0, 1,
       \* offset 90: attribute name #3 "Code", length
       0, 3, 0, 0, 0, 27,
       \* offset 96: Code: max_stack, max_locals, code, exception table, 1 attribute
       0, 1, 0, 1, 0, 0, 0, 1, 177, 0, 1, 0, 0, 0, 0, 0, 0, 0, 0, 0, 1, 0, 1, 0, 0, 0, 0,
       \* offset 123: class attributes: 1 attribute "A" of 0 bytes
       0, 1, 0, 1, 0, 0, 0, 0
    >>

PatchBytes == {0, 2, 5, 15, 255}

ParseInputs ==
    {SubSeq(BaseClassFile, 1, k) : k \in 0..Len(BaseClassFile)}
        \cup {[BaseClassFile EXCEPT ![at] = b] : at \in 1..Len(BaseClassFile), b \in PatchBytes}

(* parse applied to each input file, evaluated once per file. *)
parse_of == [f \in ParseInputs |-> parse(f)]

ParseInit ==
    /\ file \in ParseInputs
    /\ parsed = NotParsed
    /\ IdleLocals
    /\ IdleCpool
    /\ IdleSwitch
    /\ IdleStack
    /\ IdleVm
    /\ IdleIter
    /\ IdleArith /\ IdleReader /\ IdleString /\ IdleText
    /\ overflow_checks = FALSE

\* self.classes.push(parse(slice)?)
ClassManagerLoad ==
    /\ parsed.st = "none"
    /\ parsed' = parse_of[file]
    /\ classes' = IF parsed'.st = "Ok" THEN Append(classes, parsed'.val) ELSE classes
    /\ UNCHANGED <<newUnits, file, call_stack, status, last, localsVars, cpoolVars, switchVars,
                   stackVars, iterVars>>

ParseNext == ClassManagerLoad

SpecParse == ParseInit /\ [][ParseNext]_vars

(***************************************************************************)
(* The lookups of the switch instructions on their own                     *)
(* (vm/class/instruction.rs): a tableswitch or lookupswitch at pc 0 of a   *)
(* code array, decoded by parse_instruction, then lookup(key).             *)
(***************************************************************************)
MaxOffsets == 3
MaxPairs == 2

\* The four bytes of a word, big-endian.
be32(x) ==
    <<(x \div 16777216) % 256, (x \div 65536) % 256, (x \div 256) % 256, x % 256>>

RECURSIVE be32s(_)
be32s(ws) == IF ws = <<>> THEN <<>> ELSE be32(Head(ws)) \o be32s(Tail(ws))

RECURSIVE pair_words(_)
pair_words(ps) ==
    IF ps = <<>> THEN <<>> ELSE <<Head(ps).key, Head(ps).offset>> \o pair_words(Tail(ps))

SeqsUpTo(S, n) == UNION {[1..k -> S] : k \in 0..n}

SwitchOffsets == {-6, 8, 300}
SwitchKeys == {-1, 0, 1, 2, 4}

\* tableswitch at pc 0: the opcode, 3 bytes of padding, default, low, high and
\* high - low + 1 offsets
TableSwitches ==
    {[kind |-> "tableswitch", dflt |-> d, low |-> low, offsets |-> os, pairs |-> <<>>] :
        d \in {-2, 64}, low \in {-1, 0, 2}, os \in SeqsUpTo(SwitchOffsets, MaxOffsets) \ {<<>>}}

\* lookupswitch at pc 0: the opcode, 3 bytes of padding, default, the number
\* of pairs and the pairs, in any order and with keys repeated
LookupSwitches ==
    {[kind |-> "lookupswitch", dflt |-> d, low |-> 0, offsets |-> <<>>, pairs |-> ps] :
        d \in {-2, 64},
        ps \in SeqsUpTo([key : {-1, 0, 2}, offset : SwitchOffsets], MaxPairs)}

encode_switch(t) ==
    IF t.kind = "tableswitch"
    THEN <<170, 0, 0, 0>> \o be32s(<<t.dflt, t.low, t.low + Len(t.offsets) - 1>> \o t.offsets)
    ELSE <<171, 0, 0, 0>> \o be32s(<<t.dflt, Len(t.pairs)>> \o pair_words(t.pairs))

SwitchInit ==
    /\ \E t \in TableSwitches \cup LookupSwitches, key \in SwitchKeys :
          look = [table |-> t, code |-> encode_switch(t), key |-> key, done |-> FALSE,
                  ret |-> 0]
    /\ IdleLocals
    /\ IdleCpool
    /\ IdleParse
    /\ IdleStack
    /\ IdleVm
    /\ IdleIter
    /\ IdleArith /\ IdleReader /\ IdleString /\ IdleText
    /\ overflow_checks = FALSE

TableSwitchLookup ==
    /\ ~look.done
    /\ parse_instruction(look.code, 0).ok
    /\ parse_instruction(look.code, 0).op = "tableswitch"
    /\ look' = [look EXCEPT !.done = TRUE,
                            !.ret = TableSwitch_lookup(look.code,
                                        parse_instruction(look.code, 0), look.key)]
    /\ UNCHANGED <<newUnits, localsVars, cpoolVars, parseVars, stackVars, vmVars, iterVars>>

LookupSwitchLookup ==
    /\ ~look.done
    /\ parse_instruction(look.code, 0).ok
    /\ parse_instruction(look.code, 0).op = "lookupswitch"
    /\ look' = [look EXCEPT !.done = TRUE,
                            !.ret = LookupSwitch_lookup(look.code,
                                        parse_instruction(look.code, 0), look.key)]
    /\ UNCHANGED <<newUnits, localsVars, cpoolVars, parseVars, stackVars, vmVars, iterVars>>

SwitchNext ==
    \/ TableSwitchLookup
    \/ LookupSwitchLookup

SpecSwitch == SwitchInit /\ [][SwitchNext]_vars

(***************************************************************************)
(* The arithmetic and comparison arms of execute on their own (vm/mod.rs): *)
(* a frame whose operand stack holds two values, then one instruction,     *)
(* decoded from its opcode by parse_instruction, and its arm.              *)
(***************************************************************************)
ArithInts ==
    {Value_Int(n) : n \in {I32_MIN, -8, -7, -1, 0, 1, 2, 31, 32, 33, 65536, I32_MAX}}
ArithLongs == {Value_Long(n) : n \in {-128, -1, 0, 1, 3, 33, 64, 65}}
ArithFloats == {Value_Float(-1), Value_Float(0), Value_Float(2), Value_NaN("Float")}
ArithDoubles == {Value_Double(-1), Value_Double(0), Value_Double(2), Value_NaN("Double")}
ArithValues == ArithInts \cup ArithLongs \cup ArithFloats \cup ArithDoubles

\* iadd, isub, imul, idiv, irem, ishl, lshl, ishr, lshr, iushr, lushr, lcmp,
\* fcmpl, fcmpg, dcmpl, dcmpg
ArithOpcodes == {96, 100, 104, 108, 112, 120, 121, 122, 123, 124, 125, 148, 149, 150, 151, 152}

\* The left shifts of longs the model follows: those of fewer than 8 bits.
ShiftInRange(op, s) ==
    op = "lshl" /\ pop_as(s, "Long").ok => pop_as(s, "Long").val.v % 64 < 8

ArithInit ==
    /\ \E value1, value2 \in ArithValues :
          ar = [NoArm EXCEPT !.pre = push(push(<<>>, value1), value2)]
    /\ AnyBuild
    /\ IdleLocals /\ IdleCpool /\ IdleParse /\ IdleSwitch /\ IdleReader /\ IdleString /\ IdleText
    /\ IdleStack
    /\ IdleVm
    /\ IdleIter

ArithExec ==
    /\ ar.op = "none"
    /\ \E opcode \in ArithOpcodes :
          LET inst == parse_instruction(<<opcode>>, 0)
              frame == [cls |-> 0, meth |-> 0, pc |-> inst.next, locals |-> <<>>,
                        stack |-> ar.pre]
              r == exec_simple(frame, inst, <<>>)
          IN  /\ ShiftInRange(inst.op, ar.pre)
              /\ ar' = [opcode |-> opcode, op |-> inst.op, a |-> inst.a, pre |-> ar.pre,
                        ok |-> r.ok, stack |-> r.f.stack]
    /\ UNCHANGED <<textVars, overflow_checks, readerVars, stringVars, localsVars, cpoolVars,
                   parseVars, switchVars, stackVars, vmVars, iterVars>>

ArithNext == ArithExec

SpecArith == ArithInit /\ [][ArithNext]_vars

(***************************************************************************)
(* A Reader on its own (reader.rs): Reader::new over a slice, then any      *)
(* sequence of its operations.                                             *)
(***************************************************************************)
\* The slices handed to Reader::new hold at most MaxBytes bytes.
MaxBytes == 5
ReaderBytes == {0, 1, 255}

ReaderInit ==
    /\ \E slice \in SeqsUpTo(ReaderBytes, MaxBytes) : rd = [slice |-> slice, last |-> NoRead]
    /\ IdleLocals /\ IdleCpool /\ IdleParse /\ IdleSwitch /\ IdleArith /\ IdleString /\ IdleText
    /\ overflow_checks = FALSE
    /\ IdleStack
    /\ IdleVm
    /\ IdleIter

\* The Reader after the operation op that asked for n bytes and returned r.
Read(op, n, r) ==
    /\ rd' = [slice |-> r.slice,
              last |-> [op |-> op, n |-> n, st |-> r.st,
                        val |-> IF r.st = "Ok" /\ op \in {"read_u8", "read_u16", "read_u32"}
                                THEN from_be_bytes(r.bytes) ELSE 0,
                        bytes |-> r.bytes, pre |-> rd.slice]]
    /\ UNCHANGED <<textVars, overflow_checks, arithVars, stringVars, localsVars, cpoolVars,
                   parseVars, switchVars, stackVars, vmVars, iterVars>>

ReaderReadU8 == Read("read_u8", 1, Reader_read_bytes(rd.slice, 1))
ReaderReadU16 == Read("read_u16", 2, Reader_read_bytes(rd.slice, 2))
ReaderReadU32 == Read("read_u32", 4, Reader_read_bytes(rd.slice, 4))
ReaderReadBytes ==
    \E n \in 0..(MaxBytes + 1) : Read("read_bytes", n, Reader_read_bytes(rd.slice, n))
ReaderReadSlice ==
    \E n \in 0..(MaxBytes + 1) : Read("read_slice", n, Reader_read_slice(rd.slice, n))
ReaderSkip ==
    \E n \in 0..(MaxBytes + 1) : Read("skip", n, Reader_skip(rd.slice, n))

ReaderNext ==
    \/ ReaderReadU8
    \/ ReaderReadU16
    \/ ReaderReadU32
    \/ ReaderReadBytes
    \/ ReaderReadSlice
    \/ ReaderSkip

SpecReader == ReaderInit /\ [][ReaderNext]_vars

(***************************************************************************)
(* Modified UTF-8 strings on their own (string/mod.rs, string/iter.rs):    *)
(* validate on a byte string, and on one it accepts JavaStr::chars with    *)
(* each code point that next yields encoded again by encode_raw.           *)
(***************************************************************************)
\* The byte strings of any bytes hold at most MaxStrLen bytes.
MaxStrLen == 3
\* 0, 'A', 'P', three continuation bytes, the leads of two bytes C0 and C2,
\* the leads of three bytes E0 and ED, the lead of four bytes F0
StrBytes == {0, 65, 80, 128, 160, 191, 192, 194, 224, 237, 240}
\* Two sequences of three bytes, most of them the halves of a surrogate pair
SurrogateStrings ==
    {<<237, a, b, 237, c, d>> :
        a \in {160, 175, 128}, b \in {128, 191}, c \in {176, 191, 160}, d \in {128, 191, 65}}
StringInputs ==
    SeqsUpTo(StrBytes, MaxStrLen) \cup SurrogateStrings
        \cup {s \o <<b>> : s \in SurrogateStrings, b \in {65, 237}}
        \cup {<<80>> \o s : s \in SurrogateStrings}

StringInit ==
    /\ \E v \in StringInputs : jstr = [NoString EXCEPT !.v = v]
    /\ IdleLocals /\ IdleCpool /\ IdleParse /\ IdleSwitch /\ IdleArith /\ IdleReader
    /\ IdleText
    /\ overflow_checks = FALSE
    /\ IdleStack
    /\ IdleVm
    /\ IdleIter

\* JavaStr::from_java(v): validate, and on Ok the JavaStr; chars() on it is a
\* JavaChars over all its bytes.
FromJava ==
    /\ jstr.state = "new"
    /\ jstr' = [jstr EXCEPT !.state = IF validate(jstr.v).ok THEN "chars" ELSE "invalid",
                            !.res = validate(jstr.v),
                            !.slice = jstr.v,
                            !.rslice = jstr.v]
    /\ UNCHANGED <<textVars, overflow_checks, arithVars, readerVars, localsVars, cpoolVars,
                   parseVars, switchVars, stackVars, vmVars, iterVars>>

\* JavaChars::next yields a code point, and encode_raw of it is appended.
JavaCharsNext ==
    /\ jstr.state = "chars"
    /\ jstr.slice # <<>>
    /\ LET n == next_code_point(jstr.slice) IN
       jstr' = [jstr EXCEPT !.slice = n.rest,
                            !.fwd = Append(@, n.code_point),
                            !.out = @ \o encode_raw(n.code_point)]
    /\ UNCHANGED <<textVars, overflow_checks, arithVars, readerVars, localsVars, cpoolVars,
                   parseVars, switchVars, stackVars, vmVars, iterVars>>

\* JavaChars::next returns None.
JavaCharsEnd ==
    /\ jstr.state = "chars"
    /\ jstr.slice = <<>>
    /\ jstr' = [jstr EXCEPT !.state = "done"]
    /\ UNCHANGED <<textVars, overflow_checks, arithVars, readerVars, localsVars, cpoolVars,
                   parseVars, switchVars, stackVars, vmVars, iterVars>>

\* JavaChars::next_back on the second iterator yields a code point.
JavaCharsNextBack ==
    /\ jstr.state \in {"chars", "done"}
    /\ ~jstr.rdone
    /\ jstr.rslice # <<>>
    /\ LET n == next_code_point_reverse(jstr.rslice) IN
       jstr' = [jstr EXCEPT !.rslice = n.rest, !.back = Append(@, n.code_point)]
    /\ UNCHANGED <<textVars, overflow_checks, arithVars, readerVars, localsVars, cpoolVars,
                   parseVars, switchVars, stackVars, vmVars, iterVars>>

\* JavaChars::next_back on the second iterator returns None.
JavaCharsBackEnd ==
    /\ jstr.state \in {"chars", "done"}
    /\ ~jstr.rdone
    /\ jstr.rslice = <<>>
    /\ jstr' = [jstr EXCEPT !.rdone = TRUE]
    /\ UNCHANGED <<textVars, overflow_checks, arithVars, readerVars, localsVars, cpoolVars,
                   parseVars, switchVars, stackVars, vmVars, iterVars>>

StringNext ==
    \/ FromJava
    \/ JavaCharsNext
    \/ JavaCharsEnd
    \/ JavaCharsNextBack
    \/ JavaCharsBackEnd

SpecString == StringInit /\ [][StringNext]_vars

(***************************************************************************)
(* Rust strs turned into Modified UTF-8 and compared with it               *)
(* (string/mod.rs from_utf8, string/macros.rs java_str!, string/str.rs     *)
(* PartialEq<str> for JavaStr).                                            *)
(***************************************************************************)
\* A str holds at most MaxChars chars; one compared with a JavaStr at most
\* MaxEqChars, as does the str the JavaStr was made from.
MaxChars == 3
MaxEqChars == 2
\* U+0000, 'A', U+00E9, U+0800, U+10000, U+1F600, U+10FFFF
Utf8Chars == {0, 65, 233, 2048, 65536, 128512, 1114111}
Utf8Inputs == SeqsUpTo(Utf8Chars, MaxChars)
\* The JavaStrs compared: from_utf8 of short strs, and a lone surrogate
EqJavaStrs ==
    {from_utf8(str_as_bytes(cs)).bytes : cs \in SeqsUpTo({65, 233, 2048, 65536}, MaxEqChars)}
        \cup {<<237, 160, 128>>}

Utf8Init ==
    /\ \E cs \in Utf8Inputs : rstr = [NoRstr EXCEPT !.chars = cs]
    /\ desc = NoDesc
    /\ IdleLocals /\ IdleCpool /\ IdleParse /\ IdleSwitch /\ IdleArith /\ IdleReader
    /\ jstr = NoString
    /\ overflow_checks = FALSE
    /\ IdleStack
    /\ IdleVm
    /\ IdleIter

\* from_utf8(str)
FromUtf8 ==
    /\ ~rstr.conv.done
    /\ LET r == from_utf8(str_as_bytes(rstr.chars)) IN
       rstr' = [rstr EXCEPT !.conv = [done |-> TRUE, owned |-> r.owned, bytes |-> r.bytes]]
    /\ UNCHANGED <<desc, overflow_checks, arithVars, readerVars, stringVars, localsVars,
                   cpoolVars, parseVars, switchVars, stackVars, vmVars, iterVars>>

\* java_str!(str)
JavaStrLiteral ==
    /\ ~rstr.lit.done
    /\ LET r == java_str(str_as_bytes(rstr.chars)) IN
       rstr' = [rstr EXCEPT !.lit = [done |-> TRUE, ok |-> r.ok, buf |-> r.buf]]
    /\ UNCHANGED <<desc, overflow_checks, arithVars, readerVars, stringVars, localsVars,
                   cpoolVars, parseVars, switchVars, stackVars, vmVars, iterVars>>

\* java == str, for a JavaStr java
JavaStrEqStr ==
    /\ ~rstr.eq.done
    /\ Len(rstr.chars) <= MaxEqChars
    /\ \E java \in EqJavaStrs :
        rstr' = [rstr EXCEPT !.eq = [done |-> TRUE, java |-> java,
                                     res |-> JavaStr_eq_str(java, rstr.chars)]]
    /\ UNCHANGED <<desc, overflow_checks, arithVars, readerVars, stringVars, localsVars,
                   cpoolVars, parseVars, switchVars, stackVars, vmVars, iterVars>>

Utf8Next ==
    \/ FromUtf8
    \/ JavaStrLiteral
    \/ JavaStrEqStr

SpecUtf8 == Utf8Init /\ [][Utf8Next]_vars

(***************************************************************************)
(* Descriptors written as text (vm/class/descriptor.rs): Display for a     *)
(* FieldType or a MethodDescriptor.                                        *)
(***************************************************************************)
\* Arrays are nested at most MaxDepth deep; a method has at most MaxParams
\* parameters.
MaxDepth == 2
MaxParams == 2
\* The class names "A" and "a/B"
ClassNames == {<<65>>, <<97, 47, 66>>}
RECURSIVE FieldTypes(_)
FieldTypes(depth) ==
    IF depth = 0
    THEN {[k |-> p] : p \in PrimitiveTypes} \cup {[k |-> "Class", name |-> n] : n \in ClassNames}
    ELSE FieldTypes(depth - 1) \cup {[k |-> "Array", kind |-> t] : t \in FieldTypes(depth - 1)}
\* The types of parameters and results: int, long, a class, arrays of them
ParamTypes ==
    {[k |-> "Int"], [k |-> "Long"], [k |-> "Class", name |-> <<65>>]}
        \cup {t \in FieldTypes(MaxDepth) :
                t.k = "Array" /\ (t.kind.k = "Int" \/ (t.kind.k = "Array" /\ t.kind.kind.k = "Int"))}
MethodDescriptors ==
    {[k |-> "Method", parameters |-> ps, ret |-> r] :
        ps \in SeqsUpTo(ParamTypes, MaxParams), r \in ParamTypes \cup {[k |-> "None"]}}

DescInit ==
    /\ \E val \in FieldTypes(MaxDepth) \cup MethodDescriptors : desc = [NoDesc EXCEPT !.val = val]
    /\ rstr = NoRstr
    /\ IdleLocals /\ IdleCpool /\ IdleParse /\ IdleSwitch /\ IdleArith /\ IdleReader
    /\ jstr = NoString
    /\ overflow_checks = FALSE
    /\ IdleStack
    /\ IdleVm
    /\ IdleIter

\* format!("{}", field_type)
FieldTypeDisplay ==
    /\ ~desc.done
    /\ desc.val.k # "Method"
    /\ desc' = [desc EXCEPT !.text = FieldType_fmt(desc.val), !.done = TRUE]
    /\ UNCHANGED <<rstr, overflow_checks, arithVars, readerVars, stringVars, localsVars,
                   cpoolVars, parseVars, switchVars, stackVars, vmVars, iterVars>>

\* format!("{}", method_descriptor)
MethodDescriptorDisplay ==
    /\ ~desc.done
    /\ desc.val.k = "Method"
    /\ desc' = [desc EXCEPT !.text = MethodDescriptor_fmt(desc.val), !.done = TRUE]
    /\ UNCHANGED <<rstr, overflow_checks, arithVars, readerVars, stringVars, localsVars,
                   cpoolVars, parseVars, switchVars, stackVars, vmVars, iterVars>>

DescNext ==
    \/ FieldTypeDisplay
    \/ MethodDescriptorDisplay

SpecDescriptor == DescInit /\ [][DescNext]_vars

(***************************************************************************)
(* Properties of the operand stack on its own (SpecStack).                 *)
(***************************************************************************)
Cat2(val) == val.t \in {"Long", "Double"}

\* C1: Stack::push(v) followed immediately by Stack::pop() returns v and
\* leaves the slots exactly as they were before the push, whatever the stack
\* and whatever v; push adds exactly 1 slot for a category-1 value and
\* exactly 2 slots, the entry and a marker above it, for a Long or a Double.
C1_PushPopRoundTrip ==
    /\ sop.op = "push" =>
          /\ sop.ok
          /\ Len(stk) = Len(sop.pre) + (IF Cat2(sop.val) THEN 2 ELSE 1)
          /\ SubSeq(stk, 1, Len(sop.pre)) = sop.pre
          /\ stk[Len(sop.pre) + 1] = [k |-> "Entry", val |-> sop.val]
          /\ Cat2(sop.val) => stk[Len(stk)].k = "Marker"
    /\ (sop.op = "pop" /\ sprev.op = "push") =>
          /\ sop.ok
          /\ sop.val = sprev.val
          /\ stk = sprev.pre

\* A Double was pushed on a stack that held slots already, and popped again.
C1_Witness ==
    /\ sop.op = "pop"
    /\ sprev.op = "push"
    /\ sprev.val.t = "Double"
    /\ Len(sprev.pre) >= 2
    /\ sop.ok

\* Slot i of s holds a value of category 1.
Cat1At(s, i) == i >= 1 /\ i <= Len(s) /\ s[i].k = "Entry" /\ ~Cat2(s[i].val)

\* Slots i and i + 1 of s hold one value of category 2.
Cat2At(s, i) ==
    /\ i >= 1 /\ i + 1 <= Len(s)
    /\ s[i].k = "Entry" /\ Cat2(s[i].val)
    /\ s[i + 1].k = "Marker"

\* Slots i and i + 1 of s hold whole values: two of category 1 or one of
\* category 2.
PairAt(s, i) == (Cat1At(s, i) /\ Cat1At(s, i + 1)) \/ Cat2At(s, i)

\* The operand stacks on which the JVM permits each dup instruction.
ValidDupPre(op, s) ==
    LET n == Len(s) IN
    CASE op = "dup" -> Cat1At(s, n)
      [] op = "dup_x1" -> Cat1At(s, n) /\ Cat1At(s, n - 1)
      [] op = "dup_x2" -> Cat1At(s, n) /\ PairAt(s, n - 2)
      [] op = "dup2" -> PairAt(s, n - 1)
      [] op = "dup2_x1" -> PairAt(s, n - 1) /\ Cat1At(s, n - 2)
      [] op = "dup2_x2" -> PairAt(s, n - 1) /\ PairAt(s, n - 3)

\* The slots each dup instruction duplicates, and the slots it skips over.
DupWidth(op) == IF op \in {"dup", "dup_x1", "dup_x2"} THEN 1 ELSE 2
DupSkip(op) ==
    CASE op \in {"dup", "dup2"} -> 0
      [] op \in {"dup_x1", "dup2_x1"} -> 1
      [] op \in {"dup_x2", "dup2_x2"} -> 2

\* What a slot is, its value aside: an entry of category 1 or 2, or a marker.
Shape(slot) ==
    IF slot.k = "Marker" THEN "marker" ELSE IF Cat2(slot.val) THEN "cat2" ELSE "cat1"

\* C10: on every valid pre-state, dup, dup_x1 and dup_x2 add exactly 1 slot
\* and dup2, dup2_x1 and dup2_x2 exactly 2, and the slots inserted (below the
\* operands skipped over) have the category of the operand duplicated.
C10_DupGrowsByCategory ==
    (sop.op \in DupOps /\ ValidDupPre(sop.op, sop.pre)) =>
        LET n == Len(sop.pre)
            w == DupWidth(sop.op)
            at == n - w - DupSkip(sop.op)
        IN  /\ sop.ok
            /\ Len(stk) = n + w
            /\ \A j \in 1..w : Shape(stk[at + j]) = Shape(sop.pre[n - w + j])
            /\ \A j \in 1..w : Shape(stk[n + j]) = Shape(sop.pre[n - w + j])

\* dup2_x2 has duplicated a Long over a Double.
C10_Witness ==
    /\ sop.op = "dup2_x2"
    /\ sop.ok
    /\ ValidDupPre("dup2_x2", sop.pre)
    /\ Cat2At(sop.pre, Len(sop.pre) - 1)
    /\ Cat2At(sop.pre, Len(sop.pre) - 3)
    /\ Len(stk) = Len(sop.pre) + 2

(***************************************************************************)
(* Properties of the interpreter (Spec).  last.pre is the call stack as    *)
(* the instruction last yielded found it.                                  *)
(***************************************************************************)
ValueReturns == {"ireturn", "lreturn", "freturn", "dreturn"}

\* The value on top of an operand stack that holds whole values.
TopValue(s) ==
    IF s[Len(s)].k = "Marker" THEN s[Len(s) - 1].val ELSE s[Len(s)].val

\* The slots a value takes.
SlotsOf(val) ==
    IF Cat2(val) THEN <<[k |-> "Entry", val |-> val], [k |-> "Marker", val |-> NoValue]>>
    ELSE <<[k |-> "Entry", val |-> val]>>

\* The frame below the top one stopped right after an invokestatic.
AfterInvokestatic(f) == f.pc >= 3 /\ CodeOf(f)[f.pc - 3 + 1] = 184

\* C2: a value return in a frame that has a caller pops a value of its type
\* from the frame, takes exactly one frame off the call stack and pushes the
\* value on the caller's operand stack; the caller's other slots, its locals
\* and the frames below it are as they were, and the caller goes on with the
\* instruction after its invokestatic.  ret_void takes the frame off the
\* call stack and pushes nothing.
C2_ReturnToCaller ==
    LET pre == last.pre
        n == Len(pre)
    IN  /\ (last.op \in ValueReturns /\ last.ok) =>
              /\ n >= 2
              /\ TopValue(pre[n].stack).t = TypeOf(last.op)
              /\ Len(call_stack) = n - 1
              /\ Top.stack = pre[n - 1].stack \o SlotsOf(TopValue(pre[n].stack))
              /\ Top.locals = pre[n - 1].locals
              /\ Top.pc = pre[n - 1].pc
              /\ Top.cls = pre[n - 1].cls /\ Top.meth = pre[n - 1].meth
              /\ AfterInvokestatic(Top)
              /\ SubSeq(call_stack, 1, n - 2) = SubSeq(pre, 1, n - 2)
        /\ (last.op \in ValueReturns /\ n >= 2 /\ pre[n].stack # <<>>) =>
              (last.ok <=> /\ TopValue(pre[n].stack).t = TypeOf(last.op)
                           /\ SlotsOf(TopValue(pre[n].stack))
                                = SubSeq(pre[n].stack,
                                         Len(pre[n].stack) + 1
                                             - Len(SlotsOf(TopValue(pre[n].stack))),
                                         Len(pre[n].stack)))
        /\ last.op = "ret_void" =>
              /\ last.ok
              /\ call_stack = SubSeq(pre, 1, n - 1)

\* dreturn has handed a Double to a caller whose operand stack was not empty.
C2_Witness ==
    /\ last.op = "dreturn"
    /\ last.ok
    /\ Len(last.pre) = 2
    /\ last.pre[1].stack # <<>>
    /\ Len(Top.stack) = Len(last.pre[1].stack) + 2

\* The k values on top of an operand stack, the topmost first, and the slots
\* below them.
RECURSIVE TopValues(_, _)
TopValues(s, k) ==
    IF k = 0 THEN <<>>
    ELSE <<TopValue(s)>>
            \o TopValues(SubSeq(s, 1, Len(s) - Len(SlotsOf(TopValue(s)))), k - 1)

RECURSIVE Flatten(_)
Flatten(vals) ==
    IF vals = <<>> THEN <<>> ELSE SlotsOf(Head(vals)) \o Flatten(Tail(vals))

\* The method a frame runs.
MethodOf(f) == classes[f.cls].methods[f.meth]

\* C3: invokestatic of a method with k declared parameters pops exactly k
\* values from the caller's operand stack and places them, in the order they
\* are popped, in the new frame's locals from index 0 on, each value one
\* index after the one before it when that one is of category 1 and two
\* after when it is a Long or a Double; the new frame is on top of the call
\* stack, at pc 0.
C3_InvokestaticLoadsArguments ==
    (last.op = "invokestatic" /\ last.ok) =>
        LET pre == last.pre
            n == Len(pre)
            k == Len(MethodOf(Top).params)
            args == TopValues(pre[n].stack, k)
            slots == Flatten(args)
        IN  /\ Len(call_stack) = n + 1
            /\ SubSeq(call_stack, 1, n - 1) = SubSeq(pre, 1, n - 1)
            /\ call_stack[n].stack = SubSeq(pre[n].stack, 1, Len(pre[n].stack) - Len(slots))
            /\ call_stack[n].locals = pre[n].locals
            /\ call_stack[n].pc = last.next
            /\ Top.pc = 0
            /\ Top.stack = <<>>
            /\ Len(Top.locals) = MethodOf(Top).code.max_locals
            /\ SubSeq(Top.locals, 1, Len(slots)) = slots
            /\ \A i \in Len(slots) + 1 .. Len(Top.locals) : Top.locals[i].k = "Marker"

\* A method of three parameters, two of them Long, has been invoked.
C3_Witness ==
    /\ last.op = "invokestatic"
    /\ last.ok
    /\ Len(MethodOf(Top).params) = 3
    /\ Top.locals[1].k = "Entry" /\ Top.locals[1].val.t = "Long"
    /\ Top.locals[3].k = "Entry" /\ Top.locals[3].val.t = "Int"
    /\ Top.locals[4].k = "Entry" /\ Top.locals[4].val.t = "Long"

\* C4: the method invokestatic and the lookup of main select is, in the
\* resolved class, the one whose name and whose descriptor both equal the
\* ones requested, whatever the order the class declares its methods in.
C4_MethodByNameAndDescriptor ==
    /\ (last.op = "invokestatic" /\ last.ok) =>
          LET caller == last.pre[Len(last.pre)]
              ref == method_ref(classes[caller.cls].constants, last.a)
          IN  /\ Class_name(classes[Top.cls]).s = ref.class_name
              /\ Method_name(MethodOf(Top), classes[Top.cls].constants).s = ref.name
              /\ Method_descriptor(MethodOf(Top), classes[Top.cls].constants).s
                    = ref.descriptor
    /\ (last.op = "start" /\ last.ok) =>
          /\ Method_name(MethodOf(Top), classes[Top.cls].constants).s = "main"
          /\ Method_descriptor(MethodOf(Top), classes[Top.cls].constants).s
                = "([Ljava/lang/String;)V"

\* The signed 16-bit operand of the three-byte branch at pc.
BranchOperand(code, pc) ==
    LET u == code[pc + 2] * 256 + code[pc + 3] IN IF u >= 32768 THEN u - 65536 ELSE u
\* The operand of the wide branch (goto_w, jsr_w) at pc: four bytes, signed
WideBranchOperand(code, pc) ==
    LET b1 == IF code[pc + 2] >= 128 THEN code[pc + 2] - 256 ELSE code[pc + 2]
    IN  ((b1 * 256 + code[pc + 3]) * 256 + code[pc + 4]) * 256 + code[pc + 5]

\* C5: after a taken branch decoded at pc p with offset d the cursor is at
\* p + d, p being the pc of the branch itself; after a conditional branch
\* whose predicate does not hold it is at the instruction that follows the
\* branch.  (p + d is a pc: it is not negative.)
C5_BranchRelativeToOwnPc ==
    /\ (last.taken /\ last.ok /\ last.pc + last.d >= 0) =>
          /\ Top.pc = last.pc + last.d
          /\ last.op \in IfOps \cup IfIcmpOps \cup {"goto", "jsr"} \cup SwitchOps
          /\ last.op \notin SwitchOps =>
                last.d = IF last.next = last.pc + 5
                         THEN WideBranchOperand(CodeOf(Top), last.pc)
                         ELSE BranchOperand(CodeOf(Top), last.pc)
    /\ (last.op \in IfOps \cup IfIcmpOps /\ last.ok /\ ~last.taken) =>
          /\ Top.pc = last.pc + 3
          /\ Top.pc = last.next
    /\ (last.op \in {"goto", "jsr"} \cup SwitchOps /\ last.ok) => last.taken

\* A goto has branched backwards.
C5_Witness ==
    /\ last.op = "goto"
    /\ last.taken
    /\ last.d < 0
    /\ last.pc + last.d >= 0
    /\ Top.pc < last.pc

\* C6: execute returns exactly when the call stack becomes empty: it returns
\* when the frame of main, the only frame, executes its return, and while a
\* frame is on the call stack the loop goes on with the top frame.
C6_ReturnsWhenCallStackEmpty ==
    /\ status = "returned" =>
          /\ call_stack = <<>>
          /\ last.op = "ret_void" /\ last.ok /\ Len(last.pre) = 1
    /\ (call_stack = <<>> /\ status # "aborted") => status = "returned"
    /\ (last.op = "ret_void" /\ Len(last.pre) = 1) => status = "returned"
    /\ status = "running" =>
          /\ call_stack # <<>>
          /\ \/ ~Bytecode_next(CodeOf(Top), Top.pc).some
             \/ ~Yield.ok
             \/ Yield.op \in SimpleOps \cup JumpOps \cup SwitchOps \cup ReturnOps
                              \cup UnsupportedOps \cup {"invokestatic"}

\* main has returned after a method it invoked had returned to it.
C6_Witness ==
    /\ status = "returned"
    /\ call_stack = <<>>
    /\ last.op = "ret_void"
    /\ Len(last.pre) = 1
    /\ last.pre[1].pc > 3

\* C7: the decoder skips (4 - (p + 1) mod 4) mod 4 bytes after the opcode of
\* a tableswitch or lookupswitch at pc p: none when p + 1 is a multiple of 4,
\* so that the default field starts at a multiple of 4.
C7_SwitchPadding ==
    (last.op \in SwitchOps \/ (last.op = "error" /\ CodeOf(Top)[last.pc + 1] \in {170, 171})) =>
        /\ last.pad = aligned_padding(last.pc)
        /\ last.pad \in 0..3
        /\ (last.pc + 1 + last.pad) % 4 = 0

\* C9: no frame of the call stack ever holds more slots on its operand stack
\* than the max_stack of the Code attribute of its method.
C9_StackWithinMaxStack ==
    \A i \in 1..Len(call_stack) :
        Len(call_stack[i].stack) <= MethodOf(call_stack[i]).code.max_stack

(***************************************************************************)
(* Properties of the cursor on its own (SpecIter).                         *)
(***************************************************************************)
\* The code array is a sequence of whole instructions of the class-file
\* format from offset pc to its end.
RECURSIVE well_formed_from(_, _)
well_formed_from(code, pc) ==
    IF pc = Len(code) THEN TRUE
    ELSE IF pc > Len(code) THEN FALSE
    ELSE /\ parse_with(code, pc, aligned_padding(pc)).ok
         /\ well_formed_from(code, pc + encoded_size(code, pc))

RECURSIVE SumSizes(_, _)
SumSizes(code, ys) ==
    IF ys = <<>> THEN 0 ELSE encoded_size(code, Head(ys).pc) + SumSizes(code, Tail(ys))

\* C8: over a well-formed code array the cursor, started at 0 and never
\* moved by set_pc, yields strictly increasing pcs, each the pc before it
\* plus the encoded size of the instruction before it, and once the sizes of
\* the instructions yielded sum to the length of the code it returns None.
C8_CursorCoversCode ==
    well_formed_from(bc.code, 0) =>
        /\ bc.state # "panicked"
        /\ \A i \in 1..Len(yielded) :
              /\ yielded[i].pc = IF i = 1 THEN 0
                                 ELSE yielded[i - 1].pc
                                        + encoded_size(bc.code, yielded[i - 1].pc)
              /\ i > 1 => yielded[i].pc > yielded[i - 1].pc
        /\ bc.pc = SumSizes(bc.code, yielded)
        /\ bc.state = "none" <=> SumSizes(bc.code, yielded) = Len(bc.code) /\ bc.state # "iterating"

(***************************************************************************)
(* More properties of the operand stack on its own (SpecStack).            *)
(***************************************************************************)
\* C11: dup, dup_x1 and dup_x2 insert a copy of the top entry 0, 1 and 2
\* slots below the original top, and dup2, dup2_x1 and dup2_x2 a copy of the
\* top two slots, in their order, 0, 1 and 2 slots below the original pair;
\* the original slots all stay, in their order.
C11_DupInsertsBelow ==
    (sop.op \in DupOps /\ sop.ok) =>
        LET n == Len(sop.pre)
            w == DupWidth(sop.op)
            at == n - w - DupSkip(sop.op)
        IN  /\ at >= 0
            /\ stk = SubSeq(sop.pre, 1, at) \o SubSeq(sop.pre, n - w + 1, n)
                        \o SubSeq(sop.pre, at + 1, n)

\* dup2_x1 has copied two category-1 entries below a third, all different.
C11_Witness ==
    /\ sop.op = "dup2_x1"
    /\ sop.ok
    /\ Len(sop.pre) = 3
    /\ \A i \in 1..3 : Cat1At(sop.pre, i)
    /\ sop.pre[1] # sop.pre[2] /\ sop.pre[2] # sop.pre[3] /\ sop.pre[1] # sop.pre[3]
    /\ stk = <<sop.pre[2], sop.pre[3], sop.pre[1], sop.pre[2], sop.pre[3]>>

\* C12: inst_pop2 discards exactly the top two slots, one value of category
\* 2 or two of category 1, and leaves the slots below as they were; on fewer
\* than two slots it aborts.
C12_Pop2DiscardsTwoSlots ==
    sop.op = "inst_pop2" =>
        LET n == Len(sop.pre) IN
        /\ n < 2 => ~sop.ok
        /\ PairAt(sop.pre, n - 1) => sop.ok
        /\ sop.ok => n >= 2 /\ stk = SubSeq(sop.pre, 1, n - 2)

\* inst_pop2 has discarded two category-1 entries above a Long.
C12_Witness ==
    /\ sop.op = "inst_pop2"
    /\ sop.ok
    /\ Len(sop.pre) = 4
    /\ Cat2At(sop.pre, 1)
    /\ Cat1At(sop.pre, 3) /\ Cat1At(sop.pre, 4)
    /\ stk = SubSeq(sop.pre, 1, 2)

\* Slot i of s belongs to a value of category 2: its entry or its marker.
OfCat2(s, i) == s[i].k = "Marker" \/ Cat2(s[i].val)

\* C13: inst_swap exchanges the top two slots when both are entries of
\* category 1, the slots below unchanged; when either of the top two slots
\* belongs to a value of category 2, or there are fewer than two slots, it
\* aborts.
C13_SwapCategory1Only ==
    sop.op = "inst_swap" =>
        LET n == Len(sop.pre) IN
        /\ (Cat1At(sop.pre, n - 1) /\ Cat1At(sop.pre, n)) =>
              /\ sop.ok
              /\ stk = SubSeq(sop.pre, 1, n - 2) \o <<sop.pre[n], sop.pre[n - 1]>>
        /\ n < 2 => ~sop.ok
        /\ (n >= 2 /\ (OfCat2(sop.pre, n - 1) \/ OfCat2(sop.pre, n))) => ~sop.ok

(***************************************************************************)
(* Properties of a locals array on its own (SpecLocals).                   *)
(***************************************************************************)
\* C14: after set(i, v), get(i) returns v; if v is a Long or Double, slot
\* i + 1 is a dead marker and get(i + 1) aborts; no other slot is changed;
\* get of a slot never set and get of an index >= n abort.
C14_LocalsSetGet ==
    LET n == Len(locals)
        g == lop.got
    IN  /\ (lop.op = "set" /\ lop.ok) =>
              /\ (g.called /\ g.i = lop.i) => (g.ok /\ g.val = lop.val)
              /\ Cat2(lop.val) =>
                    /\ lop.i + 1 < n
                    /\ locals[lop.i + 2] = Marker
                    /\ (g.called /\ g.i = lop.i + 1) => ~g.ok
              /\ \A j \in 0..(n - 1) :
                    (j # lop.i /\ ~(Cat2(lop.val) /\ j = lop.i + 1)) =>
                        locals[j + 1] = lop.pre[j + 1]
              /\ Len(lop.pre) = n
        /\ (g.called /\ g.i \notin lop.written) => ~g.ok
        /\ (g.called /\ g.i >= n) => ~g.ok

\* A Long was set at slot 1 of three slots with an Int in slot 0, and get(2)
\* aborted.
C14_Witness ==
    /\ Len(locals) = 3
    /\ lop.op = "set" /\ lop.ok /\ lop.i = 1 /\ lop.val = Value_Long(2)
    /\ locals[1] = Entry(Value_Int(1))
    /\ lop.got.called /\ lop.got.i = 2 /\ ~lop.got.ok

(***************************************************************************)
(* Properties of a constant pool on its own (SpecCpool).                   *)
(***************************************************************************)
\* The slots an entry takes: 2 for a Long or Double, 1 otherwise.
SlotSize(entry) == IF entry.tag \in {"Long", "Double"} THEN 2 ELSE 1

\* 1 + the slots of the first j - 1 entries of es
RECURSIVE IndexOf(_, _)
IndexOf(es, j) == IF j <= 1 THEN 1 ELSE IndexOf(es, j - 1) + SlotSize(es[j - 1])

\* C15: after any sequence of adds, the j-th entry added is what get
\* returns at index 1 + the sum of the slot sizes of the entries added
\* before it (2 for a Long or Double, 1 otherwise); get at the dead slot
\* after a Long or Double, and get past the last slot, abort.
C15_PoolIndexing ==
    LET es == cop.added
        g == cop.got
    IN  /\ Len(cpool) = IndexOf(es, Len(es) + 1) - 1
        /\ g.called =>
              /\ \A j \in 1..Len(es) :
                    /\ g.i = IndexOf(es, j) => (g.ok /\ g.val = es[j])
                    /\ (SlotSize(es[j]) = 2 /\ g.i = IndexOf(es, j) + 1) => ~g.ok
              /\ g.i > Len(cpool) => ~g.ok

\* get returned the third entry, added after a Long and a Double, at index 5.
C15_Witness ==
    /\ Len(cop.added) = 3
    /\ cop.added[1].tag = "Long" /\ cop.added[2].tag = "Double"
    /\ cop.got.called /\ cop.got.i = 5 /\ cop.got.ok
    /\ cop.got.val = cop.added[3]

(***************************************************************************)
(* Properties of the class-file decoder (SpecParse).                       *)
(***************************************************************************)
\* C16: for every input, load returns Ok or an Err of one of the ParseError
\* kinds; it never panics, a declared constant-pool count of 0 and an
\* attribute whose name index is no Utf8 entry included.
C16_ParseNeverPanics ==
    /\ parsed.st \in {"none", "Ok", "Err"}
    /\ parsed.st = "Err" => parsed.err \in ParseError

\* The constant-pool indices an entry stores.
StoredIndices(e) ==
    CASE e.tag \in {"Class", "String", "MethodType"} -> {e.a}
      [] e.tag \in {"FieldRef", "MethodRef", "InterfaceMethodRef", "NameType"} -> {e.a, e.b}
      [] e.tag \in {"MethodHandle", "InvokeDynamic"} -> {e.b}
      [] OTHER -> {}

\* C17: after parse succeeds on a file whose declared constant-pool count is
\* N, every index stored in an entry of the pool lies in 1..N-1 and names a
\* live slot (so a file with a stored index of 0 or above N is rejected).
C17_StoredIndicesLive ==
    parsed.st = "Ok" =>
        LET constants == parsed.val.constants
            N == read_u16(file, 8)
        IN  \A i \in 1..Len(constants) : \A idx \in StoredIndices(constants[i]) :
                /\ idx \in 1..(N - 1)
                /\ ConstantPool_get(constants, idx) # NoEntry

(***************************************************************************)
(* Properties of the switch lookups (SpecSwitch).                          *)
(***************************************************************************)
\* C18: TableSwitch::lookup(k) returns the (k - low)-th offset of the table
\* when low <= k <= high, and the default otherwise.
C18_TableSwitchLookup ==
    (look.done /\ look.table.kind = "tableswitch") =>
        LET t == look.table
            high == t.low + Len(t.offsets) - 1
        IN  look.ret = IF t.low <= look.key /\ look.key <= high
                       THEN t.offsets[look.key - t.low + 1]
                       ELSE t.dflt

\* lookup returned the third of three different offsets for the key high.
C18_Witness ==
    /\ look.done /\ look.table.kind = "tableswitch"
    /\ look.table.low = -1 /\ look.key = 1
    /\ look.table.offsets = <<8, 300, -6>>
    /\ look.ret = -6

\* The offset of the first pair of ps whose key is k, d if there is none.
RECURSIVE FirstMatch(_, _, _)
FirstMatch(ps, k, d) ==
    IF ps = <<>> THEN d
    ELSE IF Head(ps).key = k THEN Head(ps).offset
    ELSE FirstMatch(Tail(ps), k, d)

\* C19: LookupSwitch::lookup(k) returns the offset of the first pair, in the
\* order of the table, whose key is k, and the default if no pair has it,
\* whether the pairs are sorted by key or not.
C19_LookupSwitchLookup ==
    (look.done /\ look.table.kind = "lookupswitch") =>
        look.ret = FirstMatch(look.table.pairs, look.key, look.table.dflt)

\* lookup returned the offset of the first of two pairs of the same key,
\* which are not the first pairs in key order.
C19_Witness ==
    /\ look.done /\ look.table.kind = "lookupswitch"
    /\ look.key = 2
    /\ look.table.pairs = <<[key |-> 2, offset |-> 300], [key |-> 2, offset |-> 8]>>
    /\ look.ret = 300

(***************************************************************************)
(* More properties of the interpreter (Spec).                              *)
(***************************************************************************)
\* The operand stack of the top frame before the last instruction.
PreStack == last.pre[Len(last.pre)].stack

\* The two ints an if_icmp<cond> finds on the stack: value1 was pushed first,
\* value2 is on top.
IntAt(s, i) == i >= 1 /\ i <= Len(s) /\ s[i].k = "Entry" /\ s[i].val.t = "Int"

\* value1 <cond> value2, as signed 32-bit integers
Compares(op, value1, value2) ==
    CASE op = "if_icmp_eq" -> value1 = value2
      [] op = "if_icmp_ne" -> ~(value1 = value2)
      [] op = "if_icmp_lt" -> value1 < value2
      [] op = "if_icmp_ge" -> ~(value1 < value2)
      [] op = "if_icmp_gt" -> value2 < value1
      [] op = "if_icmp_le" -> ~(value2 < value1)

\* C20: if_icmp<cond>, with value1 pushed first and value2 on top, pops both
\* and branches if and only if value1 <cond> value2 as signed 32-bit
\* integers.
C20_IfIcmpOperandOrder ==
    (last.op \in IfIcmpOps /\ last.pre # <<>>
        /\ IntAt(PreStack, Len(PreStack) - 1) /\ IntAt(PreStack, Len(PreStack))) =>
        LET n == Len(PreStack)
            value1 == PreStack[n - 1].val.v
            value2 == PreStack[n].val.v
        IN  /\ value1 \in I32_MIN..I32_MAX /\ value2 \in I32_MIN..I32_MAX
            /\ last.taken <=> Compares(last.op, value1, value2)
            /\ last.ok => Top.stack = SubSeq(PreStack, 1, n - 2)

\* if_icmp_lt has branched on 10 pushed first and 20 pushed second.
C20_Witness ==
    /\ last.op = "if_icmp_lt" /\ last.ok /\ last.taken
    /\ last.pre # <<>>
    /\ Len(PreStack) = 2
    /\ PreStack[1] = Entry(Value_Int(10)) /\ PreStack[2] = Entry(Value_Int(20))
    /\ Top.stack = <<>>

(***************************************************************************)
(* Properties of the arithmetic and comparison arms (SpecArith).  ar.pre   *)
(* is the operand stack the arm found: value1 was pushed first, value2     *)
(* second and is on top.                                                   *)
(***************************************************************************)
value1 == ar.pre[1].val
value2 == pop(ar.pre).val
Operands(ty) == value1.t = ty /\ value2.t = ty
\* The stack that holds the one int n.
OneInt(n) == <<Entry(Value_Int(n))>>

CmpType(op) ==
    CASE op = "lcmp" -> "Long" [] op = "fcmp" -> "Float" [] op = "dcmp" -> "Double"

\* C21: lcmp on the longs value1 (pushed first) and value2 (on top) pops
\* both and pushes 1 if value1 > value2, 0 if they are equal and -1 if
\* value1 < value2; fcmpl, fcmpg, dcmpl and dcmpg do the same on operands
\* neither of which is a NaN.
C21_CompareOrder ==
    (ar.op \in CmpOps /\ Operands(CmpType(ar.op)) /\ ~IsNaN(value1) /\ ~IsNaN(value2))
        => /\ ar.ok
           /\ ar.stack = OneInt(IF value1.v > value2.v THEN 1
                                ELSE IF value1.v = value2.v THEN 0 ELSE -1)

\* C22: with a NaN among the operands fcmpl (0x95) and dcmpl (0x97) push -1,
\* fcmpg (0x96) and dcmpg (0x98) push 1.
C22_NaNComparison ==
    (ar.op \in {"fcmp", "dcmp"} /\ Operands(CmpType(ar.op))
            /\ (IsNaN(value1) \/ IsNaN(value2)))
        => /\ ar.ok
           /\ ar.opcode \in {149, 151} => ar.stack = OneInt(-1)
           /\ ar.opcode \in {150, 152} => ar.stack = OneInt(1)

\* fcmpg has run on a number and a NaN, dcmpl on two NaNs.
C22_Witness ==
    \/ ar.opcode = 150 /\ Operands("Float") /\ IsNaN(value2) /\ ~IsNaN(value1)
    \/ ar.opcode = 151 /\ Operands("Double") /\ IsNaN(value1) /\ IsNaN(value2)

\* C23: iadd, isub and imul on any two ints push the result modulo 2^32 and
\* never abort.
C23_IntArithmeticWraps ==
    (ar.op \in {"iadd", "isub", "imul"} /\ Operands("Int"))
        => /\ ar.ok
           /\ ar.stack = OneInt(CASE ar.op = "iadd" -> wrapping_add(value1.v, value2.v)
                                  [] ar.op = "isub" -> wrapping_sub(value1.v, value2.v)
                                  [] ar.op = "imul" -> wrapping_mul(value1.v, value2.v))

\* The quotient of a by b # 0 truncated toward zero, as a word of 32 bits.
Quotient(a, b) == IF a = I32_MIN /\ b = -1 THEN I32_MIN ELSE i32_div(a, b)

\* C24: idiv on the ints a (pushed first) and b # 0 pushes the quotient
\* truncated toward zero and irem pushes a - b * q for that quotient q; both
\* abort when b = 0 and only then.
C24_IntDivision ==
    (ar.op \in {"idiv", "irem"} /\ Operands("Int"))
        => /\ ar.ok <=> value2.v # 0
           /\ ar.ok /\ ar.op = "idiv" =>
                 ar.stack = OneInt(Quotient(value1.v, value2.v))
           /\ ar.ok /\ ar.op = "irem" =>
                 ar.stack = OneInt(wrapping_sub(value1.v,
                                wrapping_mul(value2.v, Quotient(value1.v, value2.v))))

\* C25: ishl, ishr and iushr shift the int value1 by the count value2 modulo
\* 32 and push an int; lshl, lshr and lushr shift the long value1 by the int
\* count value2 modulo 64 and push a long; ishr and lshr keep the sign, iushr
\* and lushr shift zeros in.
C25_ShiftCounts ==
    /\ (ar.op \in {"ishl", "ishr", "iushr"} /\ Operands("Int"))
          => /\ ar.ok
             /\ ar.stack = OneInt(CASE ar.op = "ishl" -> i32_shl(value1.v, value2.v % 32)
                                    [] ar.op = "ishr" -> i32_shr(value1.v, value2.v % 32)
                                    [] ar.op = "iushr" -> i32_ushr(value1.v, value2.v % 32))
    /\ (ar.op \in {"lshl", "lshr", "lushr"} /\ value1.t = "Long" /\ value2.t = "Int")
          => /\ ar.ok
             /\ Len(ar.stack) = 2
             /\ ar.stack[1].val.t = "Long"
             /\ ar.op = "lshl" => ar.stack[1].val.v = i64_shl(value1.v, value2.v % 64)
             /\ ar.op = "lshr" => ar.stack[1].val.v = i64_shr(value1.v, value2.v % 64)

(***************************************************************************)
(* Properties of jsr and ret in the interpreter (Spec).                    *)
(***************************************************************************)
\* The frame that executed the instruction last yielded, as it found it.
PreTop == last.pre[Len(last.pre)]

\* The pc of the instruction that follows the jsr last yielded: a jsr takes
\* 3 bytes, a jsr_w (0xC9) 5.
FollowingPc == last.pc + (IF CodeOf(PreTop)[last.pc + 1] = 201 THEN 5 ELSE 3)

\* Whether local i of the frame holds a return address.
HoldsRetAddr(f, i) ==
    /\ i < Len(f.locals)
    /\ f.locals[i + 1].k = "Entry"
    /\ f.locals[i + 1].val.t = "RetAddr"

\* C26: a jsr at pc p pushes RetAddr(q), q the pc of the instruction after
\* the jsr, and sets the cursor to p + offset; ret of a local sets the cursor
\* to the address of the RetAddr the local holds and aborts when the local
\* holds none.
C26_JsrRet ==
    /\ last.op = "jsr" =>
          /\ last.ok
          /\ Top.stack = push(PreTop.stack, Value_RetAddr(FollowingPc))
          /\ Top.pc = last.pc + last.a
    /\ last.op = "ret" =>
          IF HoldsRetAddr(PreTop, last.a)
          THEN last.ok /\ Top.pc = PreTop.locals[last.a + 1].val.v
          ELSE ~last.ok /\ status = "aborted"

\* A ret has moved the cursor to a return address that a jsr pushed, away
\* from the instruction after the ret.
C26_Witness ==
    /\ last.op = "ret" /\ last.ok
    /\ HoldsRetAddr(PreTop, last.a)
    /\ Top.pc # last.next

(***************************************************************************)
(* Properties of a Reader on its own (SpecReader).  rd.last.pre is the     *)
(* slice the operation found, rd.last.n the number of bytes it asked for.  *)
(***************************************************************************)
\* C27: an operation that asks for n bytes succeeds when at least n remain,
\* and then remaining() is n less and what it returns is the first n bytes,
\* read_u16 and read_u32 decoding them big-endian; when fewer remain it
\* returns UnexpectedEndOfFile and remaining() is what it was.
C27_ReaderBounds ==
    LET l == rd.last
        first == SubSeq(l.pre, 1, l.n)
    IN  l.op # "new" =>
          IF Len(l.pre) >= l.n
          THEN /\ l.st = "Ok"
               /\ Len(rd.slice) = Len(l.pre) - l.n
               /\ first \o rd.slice = l.pre
               /\ l.op \in {"read_bytes", "read_slice"} => l.bytes = first
               /\ l.op = "read_u8" => l.val = first[1]
               /\ l.op = "read_u16" => l.val = first[1] * 256 + first[2]
               /\ l.op = "read_u32" => be32(l.val) = first
          ELSE /\ l.st = "UnexpectedEndOfFile"
               /\ Len(rd.slice) = Len(l.pre)
               /\ rd.slice = l.pre

\* A read_u32 has failed on a Reader with two bytes left.
C27_Witness ==
    /\ rd.last.op = "read_u32"
    /\ rd.last.st = "UnexpectedEndOfFile"
    /\ Len(rd.slice) = 2

(***************************************************************************)
(* Modified UTF-8 (SpecString).                                            *)
(***************************************************************************)
\* A continuation byte 10xxxxxx
Continuation(b) == b \in 128..191
\* One encoded code point of Modified UTF-8 in one, two or three bytes
Unit(s) ==
    \/ Len(s) = 1 /\ s[1] \in 1..127
    \/ /\ Len(s) = 2 /\ s[1] \in 192..223 /\ Continuation(s[2])
       /\ LET c == (s[1] - 192) * 64 + (s[2] - 128) IN c = 0 \/ c >= 128
    \/ /\ Len(s) = 3 /\ s[1] \in 224..239 /\ Continuation(s[2]) /\ Continuation(s[3])
       /\ (s[1] - 224) * 4096 + (s[2] - 128) * 64 + (s[3] - 128) >= 2048
RECURSIVE ModifiedUtf8(_)
\* v is a concatenation of encoded code points
ModifiedUtf8(v) ==
    \/ v = <<>>
    \/ \E k \in 1..3 :
        /\ k <= Len(v)
        /\ Unit(SubSeq(v, 1, k))
        /\ ModifiedUtf8(SubSeq(v, k + 1, Len(v)))
\* The two halves ED Ax xx ED Bx xx of a supplementary code point
SurrogatePair(s) ==
    /\ Len(s) = 6
    /\ s[1] = 237 /\ s[2] \in 160..175 /\ Continuation(s[3])
    /\ s[4] = 237 /\ s[5] \in 176..191 /\ Continuation(s[6])

\* C28: validate(v) is Ok exactly when v is a concatenation of single bytes
\* 0x01..0x7F, two-byte sequences decoding to 0 or to 0x80 and more, and
\* three-byte sequences decoding to 0x800 and more (a surrogate pair is two of
\* them); a byte 0x00, a continuation byte where a code point begins and a
\* lead byte of four bytes are rejected.
C28_ValidateGrammar ==
    jstr.state # "new" =>
        /\ jstr.res.ok <=> ModifiedUtf8(jstr.v)
        /\ SurrogatePair(jstr.v) => jstr.res.ok
        /\ (\E i \in 1..Len(jstr.v) : jstr.v[i] = 0 \/ jstr.v[i] >= 240) => ~jstr.res.ok
        /\ (jstr.v # <<>> /\ Continuation(jstr.v[1])) => ~jstr.res.ok
\* A surrogate pair after 'P' has been accepted.
C28_Witness ==
    /\ jstr.state = "chars"
    /\ Len(jstr.v) = 7
    /\ SurrogatePair(SubSeq(jstr.v, 2, 7))

C30_RoundTrip ==
    jstr.state = "done" => jstr.out = jstr.v

RECURSIVE Reversed(_)
\* The elements of s, last first
Reversed(s) == IF s = <<>> THEN <<>> ELSE <<s[Len(s)]>> \o Reversed(SubSeq(s, 1, Len(s) - 1))

\* C31: when next has been called until None on one JavaChars of an accepted
\* s and next_back until None on another, the code points yielded by
\* next_back are those yielded by next in reverse order.
C31_ReverseIteration ==
    (jstr.state = "done" /\ jstr.rdone) => jstr.back = Reversed(jstr.fwd)

(***************************************************************************)
(* Rust strs and Modified UTF-8 (SpecUtf8).                                *)
(***************************************************************************)
\* The three bytes 1110xxxx 10xxxxxx 10xxxxxx of u
ThreeBytes(u) == <<224 + (u \div 4096), 128 + ((u \div 64) % 64), 128 + (u % 64)>>
\* The Modified UTF-8 of one char: C0 80 for U+0000, the two surrogates of a
\* supplementary code point in three bytes each, the UTF-8 of any other
ModifiedOf(c) ==
    IF c = 0 THEN <<192, 128>>
    ELSE IF c >= 65536
    THEN ThreeBytes(55296 + ((c - 65536) \div 1024)) \o ThreeBytes(56320 + ((c - 65536) % 1024))
    ELSE char_bytes(c)
RECURSIVE ModifiedOfAll(_)
ModifiedOfAll(cs) ==
    IF cs = <<>> THEN <<>> ELSE ModifiedOf(cs[1]) \o ModifiedOfAll(SubSeq(cs, 2, Len(cs)))
\* The str holds U+0000 or a supplementary code point
NeedsCopy(cs) == \E i \in 1..Len(cs) : cs[i] = 0 \/ cs[i] >= 65536

\* C32: from_utf8(s) returns the bytes of s borrowed exactly when s holds no
\* U+0000 and no supplementary code point; what it returns is s with every
\* U+0000 as C0 80 and every sequence of four bytes as the surrogate pair of
\* its code point, the other bytes as they are, and validate accepts it.
C32_FromUtf8 ==
    rstr.conv.done =>
        /\ rstr.conv.owned <=> NeedsCopy(rstr.chars)
        /\ ~rstr.conv.owned => rstr.conv.bytes = str_as_bytes(rstr.chars)
        /\ rstr.conv.bytes = ModifiedOfAll(rstr.chars)
        /\ ModifiedUtf8(rstr.conv.bytes)
        /\ validate(rstr.conv.bytes).ok
\* from_utf8 has returned a new buffer for 'A', U+0000, U+10000.
C32_Witness ==
    /\ rstr.conv.done
    /\ rstr.chars = <<65, 0, 65536>>
    /\ rstr.conv.owned
    /\ rstr.conv.bytes = <<65, 192, 128, 237, 160, 128, 237, 176, 128>>

\* C33: the array java_str! builds for a literal is the Modified UTF-8 that
\* from_utf8 produces for it, and validate accepts it.
C33_JavaStrLiteral ==
    rstr.lit.done =>
        /\ rstr.lit.ok
        /\ rstr.lit.buf = from_utf8(str_as_bytes(rstr.chars)).bytes
        /\ validate(rstr.lit.buf).ok

\* C40: java == str is true exactly when the code points of java are the
\* chars of str, as many and pairwise equal.
C40_JavaStrEqStr ==
    rstr.eq.done => (rstr.eq.res <=> rstr.eq.java = ModifiedOfAll(rstr.chars))

(***************************************************************************)
(* Descriptors (SpecDescriptor).                                           *)
(***************************************************************************)
RECURSIVE FieldTypeText(_)
\* The descriptor text of a FieldType: one letter, L<name>; or [<FieldType>
FieldTypeText(ft) ==
    IF ft.k \in PrimitiveTypes THEN <<Ch(ft.k)>>
    ELSE IF ft.k = "Class" THEN <<76>> \o ft.name \o <<59>>
    ELSE <<91>> \o FieldTypeText(ft.kind)
RECURSIVE FieldTypeTexts(_)
FieldTypeTexts(ps) ==
    IF ps = <<>> THEN <<>> ELSE FieldTypeText(ps[1]) \o FieldTypeTexts(SubSeq(ps, 2, Len(ps)))
\* (FieldType*)(FieldType | V)
DescriptorText(val) ==
    IF val.k = "Method"
    THEN <<40>> \o FieldTypeTexts(val.parameters) \o <<41>>
            \o (IF val.ret.k = "None" THEN <<86>> ELSE FieldTypeText(val.ret))
    ELSE FieldTypeText(val)

\* C34: Display writes for a FieldType or a MethodDescriptor exactly its
\* descriptor text, arrays at any depth included.
C34_DisplayIsDescriptorText ==
    desc.done => desc.text = DescriptorText(desc.val)

(***************************************************************************)
(* The interpreter again (Spec).                                           *)
(***************************************************************************)
\* C35: after invokestatic of a method of k parameters with the arguments
\* pushed left to right, the callee's locals hold the arguments in the order
\* of declaration: the one pushed first at index 0, each other one after the
\* slots of those before it.
C35_ArgumentsInDeclarationOrder ==
    (last.op = "invokestatic" /\ last.ok) =>
        LET pre == last.pre
            k == Len(MethodOf(Top).params)
            pushed == Reversed(TopValues(pre[Len(pre)].stack, k))
            slots == Flatten(pushed)
        IN  SubSeq(Top.locals, 1, Len(slots)) = slots

(***************************************************************************)
(* The slots of category-2 values (SpecStack, SpecLocals).                 *)
(***************************************************************************)
\* Slot i of slots is an entry holding a Long or a Double.
HoldsCat2(slots, i) ==
    slots[i].k = "Entry" /\ slots[i].val.t \in {"Long", "Double"}
\* Every marker lies immediately above a Long or Double, and every Long or
\* Double immediately below a marker.
WellFormed(slots) ==
    \A i \in 1..Len(slots) :
        /\ slots[i].k = "Marker" => (i > 1 /\ HoldsCat2(slots, i - 1))
        /\ HoldsCat2(slots, i) => (i < Len(slots) /\ slots[i + 1].k = "Marker")

\* C36: after any sequence of operand-stack operations that do not abort,
\* starting from the empty stack, the stack is well formed.
C36_StackWellFormed ==
    sop.ok => WellFormed(stk)

\* C37: after any sequence of Locals::set calls that do not abort, every slot
\* holding a Long or a Double is immediately followed by a marker.
C37_LocalsCat2Followed ==
    lop.ok =>
        \A i \in 1..Len(locals) :
            HoldsCat2(locals, i) => (i < Len(locals) /\ locals[i + 1].k = "Marker")

\* C38: in every state of the loop with a frame on the call stack, the cursor
\* of the top frame yields an instruction, which execute runs or aborts on:
\* the cursor is never exhausted with its frame still on top.
C38_LoopMakesProgress ==
    (status = "running" /\ call_stack # <<>>) => Fetching

\* What one step of the loop may do to the frames: m frames after it, n before.
FrameEffect ==
    LET n == Len(call_stack)
        m == Len(call_stack')
    IN  /\ m \in {n - 1, n, n + 1}
        /\ classes' = classes
        \* a frame that is on top neither before nor after the step
        /\ \A i \in 1..(n - 1) : i < m => call_stack'[i] = call_stack[i]
        /\ m = n => (n >= 1 => /\ call_stack'[n].cls = call_stack[n].cls
                               /\ call_stack'[n].meth = call_stack[n].meth)
        \* invokestatic: the caller loses its arguments, a new frame is on top
        /\ m = n + 1 =>
              /\ last'.op = "invokestatic"
              /\ call_stack'[n].locals = call_stack[n].locals
              /\ call_stack'[n].pc = Yield.next
              /\ \E j \in 0..Len(call_stack[n].stack) :
                    call_stack'[n].stack = SubSeq(call_stack[n].stack, 1, j)
        \* a return: the frame below gets the value, if any, and nothing else
        /\ (m = n - 1 /\ m >= 1) =>
              /\ last'.op \in {"ireturn", "lreturn", "freturn", "dreturn", "ret_void"}
              /\ call_stack'[m].locals = call_stack[m].locals
              /\ call_stack'[m].pc = call_stack[m].pc
              /\ call_stack'[m].stack =
                    IF last'.op = "ret_void" THEN call_stack[m].stack
                    ELSE call_stack[m].stack \o SlotsOf(TopValue(call_stack[n].stack))

\* C39: a step of the interpreter changes the top frame alone, but that a
\* return with a value pushes the value on the operand stack of the frame
\* below and invokestatic pops the arguments from the caller and pushes a new
\* frame; the locals and the pc of a frame that is not on top do not change.
C39_OnlyTopFrameChanges == [][FrameEffect]_vars
\* A method invoked from a method invoked from main has returned a value:
\* main is below the frame that received it.
C39_Witness ==
    /\ last.op \in {"ireturn", "lreturn", "freturn", "dreturn"}
    /\ last.ok
    /\ Len(last.pre) = 3
    /\ Len(call_stack) = 2
    /\ call_stack[1] = last.pre[1]

====
